---- MODULE Spec2Model ----
(***************************************************************************)
(* Railbird: the camera rail (systems/camera-rail.ts) and the pointer      *)
(* interaction machine of the editor view (components/EditorView.tsx),     *)
(* together with the page state it is rendered from (app/page.tsx), the    *)
(* list panel (components/RailEditor.tsx) and the toolbar.                 *)
(*                                                                         *)
(* One action is one event handler run to completion followed by the       *)
(* re-render its state updates cause: the handlers are closures over the   *)
(* props of the last render, and the listeners are re-registered by the    *)
(* effect whenever mode or selectedPointId changes, so at the start of     *)
(* every handler the closure values are the page state.                    *)
(*                                                                         *)
(* Numbers.  A position is a Vec3 with integer components.  Orientations   *)
(* are unit quaternions with integer components (the group +-1,+-i,+-j,    *)
(* +-k): pointer coordinates live on a grid whose spacing is pi/2          *)
(* normalized units, so that a rotation-drag delta times the sensitivity   *)
(* is a whole number of half turns and setFromAxisAngle is exact.  Angles  *)
(* are counted in quarter turns.  The progress t of getPose and the        *)
(* coordinates of the pose it returns are exact fractions; an orientation  *)
(* strictly inside an arc between two different orientations is kept as    *)
(* the arc and the parameter.                                              *)
(*                                                                         *)
(* Six specifications: Spec is the editor under pointer, list and          *)
(* toolbar events; RailSpec is the rail store under direct calls of its    *)
(* interface; PoseSpec is getPose on every rail of up to MaxRailPoints     *)
(* points; PlayerSpec is the player viewport on a rail that changes;       *)
(* StoreSpec is the rail store as objects and references, with a caller    *)
(* who keeps and writes to what the calls return; LoopSpec is the render   *)
(* loops of the two viewports on the browser's animation-frame queue.      *)
(***************************************************************************)
EXTENDS Integers, Sequences, FiniteSets, TLC

\* Bound: how many animation-frame requests a session may make.
MaxRequests == 6

\* Bound: how many control points a session may create (caps pointCounter).
MaxPoints == 2

\* Bound: how many control points the rail seen as references may hold, and
\* how many a list of the caller's holds.
MaxStorePoints == 2

\* Bound: how many calls the caller of the rail seen as references makes in
\* a session.
MaxCalls == 4

\* Bound: how many control points a session of direct calls to the rail
\* store may add (caps pointCounter there).
MaxRailPoints == 3

\* The page's "no selection" value of selectedPointId (string | null).
Null == 0 - 1


\* THREE.Vector3
Vec3(x, y, z) == [x |-> x, y |-> y, z |-> z]

\* THREE.Quaternion
Quat(x, y, z, w) == [x |-> x, y |-> y, z |-> z, w |-> w]

\* new THREE.Vector2(x, y)
Vec2(x, y) == [x |-> x, y |-> y]

\* new THREE.Quaternion(): the identity
IdentityQuat == Quat(0, 0, 0, 1)

\* The points a pointer ray can meet the drag plane in.
PlanePoints == {Vec3(0, 0, 0), Vec3(1, 0, 0)}

\* An optional value (T | null | undefined): <<>> when absent, <<v>> when present.
None == <<>>
Some(v) == <<v>>

\* getIntersectionPoint: the intersection depends on the camera, the pointer
\* and the drag plane, so every outcome is an input of the event; None is
\* "no intersection" (ray parallel to the plane, or the plane behind the ray).
Intersections == {Some(p) : p \in PlanePoints} \cup {None}

\* viewport.camera.quaternion at the time of the event (orbit controls move
\* the camera freely between events).
CameraQuats == {Quat(0, 1, 0, 0)}

\* event.button: 0 is the primary button.
Buttons == {0, 2}

\* EditorMode
Modes == {"select", "create"}

\* Pointer positions after getMousePosition, on the grid: two positions a
\* grid step apart on both axes, so a move between them yaws and pitches.
MousePositions == {Vec2(0, 0), Vec2(1, 1)}

VARIABLES
    controlPoints,        \* rail: the ordered sequence of control points
    pointCounter,         \* module-level id counter of camera-rail.ts
    mode,                 \* page state editorMode
    selectedPointId,      \* page state selectedPointId
    isDraggingPosition,   \* isDraggingPositionRef.current
    isDraggingRotation,   \* isDraggingRotationRef.current
    controlsEnabled,      \* viewport.controls.enabled (orbit controls)
    lastMouse,            \* lastMouseRef.current
    pointMeshes,          \* pointMeshesRef.current: id -> mesh pose
    railLine,             \* helper's rail line: positions, <<>> when absent
    uiPoints,             \* page state controlPoints as rendered by the list
    dragStart,            \* history: the hit of the pointer-down that began the drag
    lastEvent,            \* history: the last event handled
    lastSample,           \* history: in a rotation drag, the pointer position
                          \* of the last primary pointer-down or pointer-move
                          \* delivered; lastMouse outside one
    generatedIds,         \* history: every id generatePointId has returned
    heap,                 \* the objects of the store seen as references
    held,                 \* the reference a caller of the store holds
    calls,                \* history: how many calls that caller has made
    player,               \* the player viewport: its camera and progress
    loop                  \* the viewports' render loops and the browser's frame requests

vars == <<controlPoints, pointCounter, mode, selectedPointId,
          isDraggingPosition, isDraggingRotation, controlsEnabled, lastMouse,
          pointMeshes, railLine, uiPoints, dragStart, lastEvent, lastSample,
          generatedIds, heap, held, calls, player, loop>>

\* What only the reference-level store and the player viewport use.
storeVars == <<heap, held, calls>>
viewVars == <<player, loop>>
otherVars == <<storeVars, viewVars>>

----------------------------------------------------------------------------
(* Quaternion arithmetic, as three.js computes it.                         *)

\* sin and cos of a whole number of quarter turns.
SinQ(n) == CASE n % 4 = 0 -> 0 [] n % 4 = 1 -> 1 [] n % 4 = 2 -> 0 [] OTHER -> 0 - 1
CosQ(n) == CASE n % 4 = 0 -> 1 [] n % 4 = 1 -> 0 [] n % 4 = 2 -> 0 - 1 [] OTHER -> 0

\* Quaternion.setFromAxisAngle(axis, angle): angle in quarter turns, even.
setFromAxisAngle(axis, angle) ==
    LET halfAngle == angle \div 2
        s == SinQ(halfAngle)
    IN  Quat(axis.x * s, axis.y * s, axis.z * s, CosQ(halfAngle))

\* Quaternion.multiplyQuaternions(a, b): the Hamilton product a * b.
multiply(a, b) ==
    Quat(a.x * b.w + a.w * b.x + a.y * b.z - a.z * b.y,
         a.y * b.w + a.w * b.y + a.z * b.x - a.x * b.z,
         a.z * b.w + a.w * b.z + a.x * b.y - a.y * b.x,
         a.w * b.w - a.x * b.x - a.y * b.y - a.z * b.z)

----------------------------------------------------------------------------
(* The numbers of getPose.  The progress t and what is computed from it    *)
(* are exact fractions n/d in lowest terms with d > 0; the coordinates of  *)
(* a returned pose are such fractions too.                                 *)

Abs(n) == IF n < 0 THEN 0 - n ELSE n

RECURSIVE Gcd(_, _)
Gcd(a, b) == IF b = 0 THEN a ELSE Gcd(b, a % b)

\* The number n/d.
Rat(n, d) ==
    LET g == Gcd(Abs(n), d)
    IN  [n |-> n \div g, d |-> d \div g]

\* A whole number as a number of getPose.
Num(i) == Rat(i, 1)

RAdd(a, b) == Rat(a.n * b.d + b.n * a.d, a.d * b.d)
RSub(a, b) == Rat(a.n * b.d - b.n * a.d, a.d * b.d)
RMul(a, b) == Rat(a.n * b.n, a.d * b.d)
RLess(a, b) == a.n * b.d < b.n * a.d

\* Math.max, Math.min, Math.floor
RMax(a, b) == IF RLess(a, b) THEN b ELSE a
RMin(a, b) == IF RLess(b, a) THEN b ELSE a
RFloor(a) == a.n \div a.d
Max(a, b) == IF a < b THEN b ELSE a
Min(a, b) == IF b < a THEN b ELSE a

\* The values of t a caller passes: below 0, above 1, the ends, and the
\* halves, thirds and quarters in between.
Progresses ==
    {Rat(0 - 1, 2), Num(0), Rat(1, 4), Rat(1, 3), Rat(1, 2), Rat(2, 3),
     Rat(3, 4), Num(1), Rat(3, 2)}

\* A vector of whole numbers as a vector of numbers of getPose.
NumVec(v) == Vec3(Num(v.x), Num(v.y), Num(v.z))

\* Vector3.lerpVectors(v1, v2, alpha): v1 + (v2 - v1) * alpha per component.
lerpVectors(v1, v2, alpha) ==
    Vec3(RAdd(Num(v1.x), RMul(Num(v2.x - v1.x), alpha)),
         RAdd(Num(v1.y), RMul(Num(v2.y - v1.y), alpha)),
         RAdd(Num(v1.z), RMul(Num(v2.z - v1.z), alpha)))

\* The dot product of two quaternions: the cosine of half the angle between.
Dot(a, b) == a.x * b.x + a.y * b.y + a.z * b.z + a.w * b.w

Negated(q) == Quat(0 - q.x, 0 - q.y, 0 - q.z, 0 - q.w)

\* Quaternion.slerpQuaternions(qa, qb, t): qa at t = 0 and qb at t = 1;
\* otherwise qb is negated when the dot product is negative (the shorter
\* arc), the result is qa when the two then coincide, and else the point at
\* t on the arc from qa to qb, kept as the arc and the parameter (its
\* coordinates are sines of fractions of the angle).
slerpQuaternions(qa, qb, t) ==
    IF t = Num(0) THEN qa
    ELSE IF t = Num(1) THEN qb
    ELSE LET cosHalfTheta == Dot(qa, qb)
             target == IF cosHalfTheta < 0 THEN Negated(qb) ELSE qb
         IN  IF Abs(cosHalfTheta) >= 1 THEN qa
             ELSE [from |-> qa, to |-> target, at |-> t]

----------------------------------------------------------------------------
(* The rail store (createCameraRailSystem).                                *)

\* The ids of a sequence of points.
IdSet(points) == {points[i].id : i \in 1..Len(points)}

\* controlPoints.findIndex((p) => p.id === id): 0 when absent.
findIndex(points, id) ==
    IF id \in IdSet(points)
    THEN CHOOSE i \in 1..Len(points) :
             /\ points[i].id = id
             /\ \A j \in 1..(i - 1) : points[j].id # id
    ELSE 0

\* Mutant of generatePointId: the counter wraps around.
generatePointId_wrap(counter) == counter % 2

\* Mutant of generatePointId: the counter is left out of the id.
generatePointId_noCounter(counter) == 0

\* generatePointId: the counter makes the id unique within the session.
generatePointId(counter) == counter

\* Mutant of addPoint: the point is put first (unshift for push).
addPoint_unshift(points, counter, position, quaternion) ==
    <<[id |-> generatePointId(counter),
       position |-> position,
       quaternion |-> IF quaternion # None THEN quaternion[1]
                      ELSE IdentityQuat]>> \o points

\* addPoint(position, quaternion?): append a fresh point; an omitted
\* quaternion (None) defaults to the identity.
addPoint(points, counter, position, quaternion) ==
    Append(points, [id |-> generatePointId(counter),
                    position |-> position,
                    quaternion |-> IF quaternion # None THEN quaternion[1]
                                   ELSE IdentityQuat])

\* Mutant of removePoint: the index is not tested, and splice(-1, 1) takes
\* out the last point.
removePoint_noIndexTest(points, id) ==
    LET index == findIndex(points, id)
    IN  IF index # 0
        THEN SubSeq(points, 1, index - 1) \o SubSeq(points, index + 1, Len(points))
        ELSE SubSeq(points, 1, Len(points) - 1)

\* removePoint(id): splice out the first match; no-op when absent.
removePoint(points, id) ==
    LET index == findIndex(points, id)
    IN  IF index # 0
        THEN SubSeq(points, 1, index - 1) \o SubSeq(points, index + 1, Len(points))
        ELSE points

\* getPoint(id): the point, or None (undefined).
getPoint(points, id) ==
    LET index == findIndex(points, id)
    IN  IF index # 0 THEN Some(points[index]) ELSE None

\* Mutant of updatePoint: an omitted quaternion resets the orientation.
updatePoint_resetsOmitted(points, id, position, quaternion) ==
    LET index == findIndex(points, id)
    IN  IF index = 0 THEN points
        ELSE [points EXCEPT
                ![index].position =
                    IF position # None THEN position[1] ELSE @,
                ![index].quaternion =
                    IF quaternion # None THEN quaternion[1] ELSE IdentityQuat]

\* updatePoint(id, position?, quaternion?): an omitted field (None) is kept.
updatePoint(points, id, position, quaternion) ==
    LET index == findIndex(points, id)
    IN  IF index = 0 THEN points
        ELSE [points EXCEPT
                ![index].position =
                    IF position # None THEN position[1] ELSE @,
                ![index].quaternion =
                    IF quaternion # None THEN quaternion[1] ELSE @]

\* Mutant of reorderPoint: the point changes places with the one at the
\* clamped index.
reorderPoint_swap(points, id, newIndex) ==
    LET currentIndex == findIndex(points, id)
    IN  IF currentIndex = 0 THEN points
        ELSE LET clampedIndex == Max(0, Min(newIndex, Len(points) - 1))
             IN  [points EXCEPT ![currentIndex] = points[clampedIndex + 1],
                                ![clampedIndex + 1] = points[currentIndex]]

\* reorderPoint(id, newIndex): take the point out, clamp newIndex to the
\* shortened sequence, put the point back there; no-op when absent.  The
\* indexes of the code are 0-based, the sequence here is 1-based.
reorderPoint(points, id, newIndex) ==
    LET currentIndex == findIndex(points, id)
    IN  IF currentIndex = 0 THEN points
        ELSE LET point == points[currentIndex]
                 spliced == SubSeq(points, 1, currentIndex - 1)
                               \o SubSeq(points, currentIndex + 1, Len(points))
                 clampedIndex == Max(0, Min(newIndex, Len(spliced)))
             IN  SubSeq(spliced, 1, clampedIndex) \o <<point>>
                    \o SubSeq(spliced, clampedIndex + 1, Len(spliced))

\* Mutant of segmentPose: the local parameter is measured from floor(u)
\* instead of from the clamped segment index.
segmentPose_localFromFloor(points, clampedT) ==
    LET totalSegments == Len(points) - 1
        segmentT == RMul(clampedT, Num(totalSegments))
        segmentIndex == Min(RFloor(segmentT), totalSegments - 1)
        localT == RSub(segmentT, Num(RFloor(segmentT)))
        p0 == points[segmentIndex + 1]
        p1 == points[segmentIndex + 2]
    IN  [position |-> lerpVectors(p0.position, p1.position, localT),
         quaternion |-> slerpQuaternions(p0.quaternion, p1.quaternion, localT)]

\* Mutant of segmentPose: the number of points is taken for the number of
\* segments.
segmentPose_lengthSegments(points, clampedT) ==
    LET totalSegments == Len(points) - 1
        segmentT == RMul(clampedT, Num(Len(points)))
        segmentIndex == Min(RFloor(segmentT), totalSegments - 1)
        localT == RSub(segmentT, Num(segmentIndex))
        p0 == points[segmentIndex + 1]
        p1 == points[segmentIndex + 2]
    IN  [position |-> lerpVectors(p0.position, p1.position, localT),
         quaternion |-> slerpQuaternions(p0.quaternion, p1.quaternion, localT)]

\* getPose on two or more points, after the clamp of t: the segment the
\* clamped t falls in and the interpolation within it.  The indexes of the
\* code are 0-based, the sequence here is 1-based.
segmentPose(points, clampedT) ==
    LET totalSegments == Len(points) - 1
        segmentT == RMul(clampedT, Num(totalSegments))
        segmentIndex == Min(RFloor(segmentT), totalSegments - 1)
        localT == RSub(segmentT, Num(segmentIndex))
        p0 == points[segmentIndex + 1]
        p1 == points[segmentIndex + 2]
    IN  [position |-> lerpVectors(p0.position, p1.position, localT),
         quaternion |-> slerpQuaternions(p0.quaternion, p1.quaternion, localT)]

\* Mutant of getPose: t is not clamped from above.
getPose_noUpperClamp(points, t) ==
    IF Len(points) = 0 THEN None
    ELSE IF Len(points) = 1
    THEN Some([position |-> NumVec(points[1].position),
               quaternion |-> points[1].quaternion])
    ELSE Some(segmentPose(points, RMax(Num(0), t)))

\* Mutant of getPose: an empty rail yields a pose at the origin.
getPose_emptyAsOrigin(points, t) ==
    IF Len(points) = 0
    THEN Some([position |-> NumVec(Vec3(0, 0, 0)), quaternion |-> IdentityQuat])
    ELSE IF Len(points) = 1
    THEN Some([position |-> NumVec(points[1].position),
               quaternion |-> points[1].quaternion])
    ELSE Some(segmentPose(points, RMax(Num(0), RMin(Num(1), t))))

\* Mutant of getPose: the pose of a single point loses its orientation.
getPose_singleDropsOrientation(points, t) ==
    IF Len(points) = 0 THEN None
    ELSE IF Len(points) = 1
    THEN Some([position |-> NumVec(points[1].position),
               quaternion |-> IdentityQuat])
    ELSE Some(segmentPose(points, RMax(Num(0), RMin(Num(1), t))))

\* getPose(t): None (null) on an empty rail, a copy of the only point's pose
\* on a rail of one, else t is clamped to [0, 1] and interpolated.
getPose(points, t) ==
    IF Len(points) = 0 THEN None
    ELSE IF Len(points) = 1
    THEN Some([position |-> NumVec(points[1].position),
               quaternion |-> points[1].quaternion])
    ELSE Some(segmentPose(points, RMax(Num(0), RMin(Num(1), t))))

\* toJSON(): per point the id and the plain coordinates.
toJSON(points) ==
    [i \in 1..Len(points) |->
        [id |-> points[i].id,
         position |-> [x |-> points[i].position.x,
                       y |-> points[i].position.y,
                       z |-> points[i].position.z],
         quaternion |-> [x |-> points[i].quaternion.x,
                         y |-> points[i].quaternion.y,
                         z |-> points[i].quaternion.z,
                         w |-> points[i].quaternion.w]]]

\* Mutant of fromJSON: the quaternion is rebuilt with w first.
fromJSON_wFirst(data) ==
    [i \in 1..Len(data) |->
        [id |-> data[i].id,
         position |-> Vec3(data[i].position.x, data[i].position.y,
                           data[i].position.z),
         quaternion |-> Quat(data[i].quaternion.w, data[i].quaternion.x,
                             data[i].quaternion.y, data[i].quaternion.z)]]

\* fromJSON(data): the sequence is replaced by points rebuilt from the data.
fromJSON(data) ==
    [i \in 1..Len(data) |->
        [id |-> data[i].id,
         position |-> Vec3(data[i].position.x, data[i].position.y,
                           data[i].position.z),
         quaternion |-> Quat(data[i].quaternion.x, data[i].quaternion.y,
                             data[i].quaternion.z, data[i].quaternion.w)]]

\* Mutant of dispose: the first point survives.
dispose_keepFirst(points) == SubSeq(points, 1, Min(1, Len(points)))

\* dispose(): controlPoints.length = 0.
dispose(points) == <<>>

----------------------------------------------------------------------------
(* Visual sync: the control point helper and syncPointMeshes.              *)

\* createPointMesh(point): a group posed as the point.
createPointMesh(point) ==
    [position |-> point.position, quaternion |-> point.quaternion]

\* updatePointMesh(mesh, point): copy the point's pose into the mesh.
updatePointMesh(mesh, point) ==
    [mesh EXCEPT !.position = point.position, !.quaternion = point.quaternion]

\* updateRailLine(points): no line below two points, else the cloned positions.
updateRailLine(points) ==
    IF Len(points) < 2 THEN <<>>
    ELSE [i \in 1..Len(points) |-> points[i].position]

\* The rows the list panel renders from the delivered point list.
Rows(points) ==
    [i \in 1..Len(points) |-> [id |-> points[i].id, position |-> points[i].position]]

\* syncPointMeshes(): drop the meshes of deleted points, create or update a
\* mesh per point, redraw the line, deliver [...points] to the page.
syncPointMeshes(points) ==
    LET kept == {id \in DOMAIN pointMeshes : id \in IdSet(points)}
    IN  /\ pointMeshes' =
            [id \in IdSet(points) |->
                LET point == points[findIndex(points, id)]
                IN  IF id \in kept
                    THEN updatePointMesh(pointMeshes[id], point)
                    ELSE createPointMesh(point)]
        /\ railLine' = updateRailLine(points)
        /\ uiPoints' = Rows(points)

----------------------------------------------------------------------------
(* The pointer interaction machine (EditorView's pointer handlers).        *)

Idle == ~isDraggingPosition /\ ~isDraggingRotation

\* getHitPointMesh: the first mesh the ray meets and whether its cone was
\* hit, or None.  Which mesh is met depends on camera and pointer: an input.
Hits ==
    {Some([pointId |-> id, hitCone |-> c]) : id \in DOMAIN pointMeshes, c \in BOOLEAN}
        \cup {None}

\* Mutant of createBranch: the switch back to select is made outside the
\* intersection test.
createBranch_alwaysSelect(intersection, cameraQuaternion) ==
    /\ mode' = "select"
    /\ IF intersection # None
       THEN /\ controlPoints' =
                 addPoint(controlPoints, pointCounter, intersection[1],
                         Some(cameraQuaternion))
            /\ pointCounter' = pointCounter + 1
            /\ syncPointMeshes(controlPoints')
       ELSE UNCHANGED <<controlPoints, pointCounter, pointMeshes, railLine, uiPoints>>
    /\ UNCHANGED <<selectedPointId, isDraggingPosition, isDraggingRotation,
                   controlsEnabled>>

\* Mutant of createBranch: the new point is dragged at once.
createBranch_startsDrag(intersection, cameraQuaternion) ==
    IF intersection # None
    THEN /\ controlPoints' =
              addPoint(controlPoints, pointCounter, intersection[1],
                         Some(cameraQuaternion))
         /\ pointCounter' = pointCounter + 1
         /\ syncPointMeshes(controlPoints')
         /\ mode' = "select"
         /\ isDraggingPosition' = TRUE
         /\ controlsEnabled' = FALSE
         /\ UNCHANGED <<selectedPointId, isDraggingRotation>>
    ELSE UNCHANGED <<controlPoints, pointCounter, pointMeshes, railLine, uiPoints,
                     mode, selectedPointId, isDraggingPosition,
                     isDraggingRotation, controlsEnabled>>

\* handlePointerDown, mode === "create": add a point at the intersection
\* with the camera's orientation, sync, switch back to select.
createBranch(intersection, cameraQuaternion) ==
    IF intersection # None
    THEN /\ controlPoints' =
              addPoint(controlPoints, pointCounter, intersection[1],
                         Some(cameraQuaternion))
         /\ pointCounter' = pointCounter + 1
         /\ syncPointMeshes(controlPoints')
         /\ mode' = "select"
         /\ UNCHANGED <<selectedPointId, isDraggingPosition, isDraggingRotation,
                        controlsEnabled>>
    ELSE UNCHANGED <<controlPoints, pointCounter, pointMeshes, railLine, uiPoints,
                     mode, selectedPointId, isDraggingPosition,
                     isDraggingRotation, controlsEnabled>>

\* Mutant of startDrag: the rotation drag forgets to disable the controls.
startDrag_coneKeepsControls(hitCone) ==
    IF hitCone
    THEN /\ isDraggingRotation' = TRUE
         /\ UNCHANGED <<isDraggingPosition, controlsEnabled>>
    ELSE /\ isDraggingPosition' = TRUE
         /\ controlsEnabled' = FALSE
         /\ UNCHANGED isDraggingRotation

\* handlePointerDown, a mesh was hit: cone starts a rotation drag, sphere a
\* position drag; either disables the orbit controls.
startDrag(hitCone) ==
    IF hitCone
    THEN /\ isDraggingRotation' = TRUE
         /\ controlsEnabled' = FALSE
         /\ UNCHANGED isDraggingPosition
    ELSE /\ isDraggingPosition' = TRUE
         /\ controlsEnabled' = FALSE
         /\ UNCHANGED isDraggingRotation

\* Mutant of selectBranch: a click on empty space keeps the selection.
selectBranch_noDeselect(hit) ==
    /\ IF hit # None
       THEN /\ selectedPointId' = hit[1].pointId
            /\ startDrag(hit[1].hitCone)
       ELSE UNCHANGED <<selectedPointId, isDraggingPosition, isDraggingRotation,
                        controlsEnabled>>
    /\ UNCHANGED <<controlPoints, pointCounter, pointMeshes, railLine, uiPoints, mode>>

\* handlePointerDown, mode === "select".
selectBranch(hit) ==
    /\ IF hit # None
       THEN /\ selectedPointId' = hit[1].pointId
            /\ startDrag(hit[1].hitCone)
       ELSE /\ selectedPointId' = Null
            /\ UNCHANGED <<isDraggingPosition, isDraggingRotation, controlsEnabled>>
    /\ UNCHANGED <<controlPoints, pointCounter, pointMeshes, railLine, uiPoints, mode>>

\* Mutant of handlePointerDown: every button is handled.
handlePointerDown_anyButton(button, mouse, hit, intersection, cameraQuaternion) ==
    /\ lastMouse' = mouse
    /\ IF mode = "create"
       THEN createBranch(intersection, cameraQuaternion)
       ELSE selectBranch(hit)

\* handlePointerDown(event)
handlePointerDown(button, mouse, hit, intersection, cameraQuaternion) ==
    IF button # 0
    THEN UNCHANGED <<controlPoints, pointCounter, mode, selectedPointId,
                     isDraggingPosition, isDraggingRotation, controlsEnabled,
                     lastMouse, pointMeshes, railLine, uiPoints>>
    ELSE /\ lastMouse' = mouse
         /\ IF mode = "create"
            THEN createBranch(intersection, cameraQuaternion)
            ELSE selectBranch(hit)

\* Rotation sensitivity: radians per normalized unit, here quarter turns per
\* grid step.
sensitivity == 2

\* handlePointerMove, rotation drag: the new orientation from the pointer
\* delta, yaw about world Y, pitch about local X.
rotatedQuaternion(quaternion, deltaX, deltaY) ==
    LET yawQuat == setFromAxisAngle(Vec3(0, 1, 0), deltaX * sensitivity)
        pitchQuat == setFromAxisAngle(Vec3(1, 0, 0), deltaY * sensitivity)
    IN  multiply(multiply(yawQuat, quaternion), pitchQuat)

\* handlePointerMove, isDraggingPosition: move the selected point to the
\* intersection and sync; skipped when there is no intersection.
positionBranch(intersection) ==
    IF intersection # None
    THEN /\ controlPoints' =
              updatePoint(controlPoints, selectedPointId, intersection, None)
         /\ syncPointMeshes(controlPoints')
         /\ UNCHANGED lastMouse
    ELSE UNCHANGED <<controlPoints, pointMeshes, railLine, uiPoints, lastMouse>>

\* Mutant of rotationBranch: the rail is updated but the point's mesh is not.
rotationBranch_noMeshUpdate(mouse) ==
    LET deltaX == mouse.x - lastMouse.x
        deltaY == mouse.y - lastMouse.y
        controlPoint == getPoint(controlPoints, selectedPointId)
    IN  /\ lastMouse' = mouse
        /\ IF controlPoint = None
           THEN UNCHANGED <<controlPoints, railLine>>
           ELSE LET newQuat == rotatedQuaternion(controlPoint[1].quaternion,
                                                 deltaX, deltaY)
                    updated == updatePoint(controlPoints, selectedPointId,
                                           None, Some(newQuat))
                IN  /\ controlPoints' = updated
                    /\ railLine' = updateRailLine(updated)
        /\ UNCHANGED <<pointMeshes, uiPoints>>

\* handlePointerMove, isDraggingRotation: rotate the selected point by the
\* delta since the last sample, then refresh its mesh and the line.
rotationBranch(mouse) ==
    LET deltaX == mouse.x - lastMouse.x
        deltaY == mouse.y - lastMouse.y
        controlPoint == getPoint(controlPoints, selectedPointId)
    IN  /\ lastMouse' = mouse
        /\ IF controlPoint = None
           THEN UNCHANGED <<controlPoints, pointMeshes, railLine>>
           ELSE LET newQuat == rotatedQuaternion(controlPoint[1].quaternion,
                                                 deltaX, deltaY)
                    updated == updatePoint(controlPoints, selectedPointId,
                                           None, Some(newQuat))
                IN  /\ controlPoints' = updated
                    /\ pointMeshes' =
                         IF selectedPointId \in DOMAIN pointMeshes
                         THEN [pointMeshes EXCEPT ![selectedPointId] =
                                 updatePointMesh(@, getPoint(updated, selectedPointId)[1])]
                         ELSE pointMeshes
                    /\ railLine' = updateRailLine(updated)
        /\ UNCHANGED uiPoints

\* handlePointerMove(event)
handlePointerMove(mouse, intersection) ==
    /\ IF mode # "select" \/ selectedPointId = Null
       THEN UNCHANGED <<controlPoints, pointMeshes, railLine, uiPoints, lastMouse>>
       ELSE IF isDraggingPosition THEN positionBranch(intersection)
       ELSE IF isDraggingRotation THEN rotationBranch(mouse)
       ELSE UNCHANGED <<controlPoints, pointMeshes, railLine, uiPoints, lastMouse>>
    /\ UNCHANGED <<pointCounter, mode, selectedPointId, isDraggingPosition,
                   isDraggingRotation, controlsEnabled>>

\* Mutant of handlePointerUp: ending a drag also clears the selection.
handlePointerUp_deselects ==
    /\ IF isDraggingPosition \/ isDraggingRotation
       THEN /\ isDraggingPosition' = FALSE
            /\ isDraggingRotation' = FALSE
            /\ controlsEnabled' = TRUE
            /\ selectedPointId' = Null
       ELSE UNCHANGED <<isDraggingPosition, isDraggingRotation, controlsEnabled,
                        selectedPointId>>
    /\ UNCHANGED <<controlPoints, pointCounter, mode, lastMouse,
                   pointMeshes, railLine, uiPoints>>

\* Mutant of handlePointerUp: only a position drag is ended.
handlePointerUp_positionOnly ==
    /\ IF isDraggingPosition
       THEN /\ isDraggingPosition' = FALSE
            /\ controlsEnabled' = TRUE
            /\ UNCHANGED isDraggingRotation
       ELSE UNCHANGED <<isDraggingPosition, isDraggingRotation, controlsEnabled>>
    /\ UNCHANGED <<controlPoints, pointCounter, mode, selectedPointId, lastMouse,
                   pointMeshes, railLine, uiPoints>>

\* handlePointerUp(): registered for pointerup and for pointerleave.
handlePointerUp ==
    /\ IF isDraggingPosition \/ isDraggingRotation
       THEN /\ isDraggingPosition' = FALSE
            /\ isDraggingRotation' = FALSE
            /\ controlsEnabled' = TRUE
       ELSE UNCHANGED <<isDraggingPosition, isDraggingRotation, controlsEnabled>>
    /\ UNCHANGED <<controlPoints, pointCounter, mode, selectedPointId, lastMouse,
                   pointMeshes, railLine, uiPoints>>

\* Mutant of window.__deleteControlPoint: the selection is never cleared.
deleteControlPoint_keepsSelection(id) ==
    /\ controlPoints' = removePoint(controlPoints, id)
    /\ syncPointMeshes(controlPoints')
    /\ UNCHANGED <<pointCounter, mode, selectedPointId, isDraggingPosition,
                   isDraggingRotation, controlsEnabled, lastMouse>>

\* window.__deleteControlPoint(id), reached from the list panel's delete
\* button through handleDeletePoint.
deleteControlPoint(id) ==
    /\ controlPoints' = removePoint(controlPoints, id)
    /\ selectedPointId' = IF selectedPointId = id THEN Null ELSE selectedPointId
    /\ syncPointMeshes(controlPoints')
    /\ UNCHANGED <<pointCounter, mode, isDraggingPosition, isDraggingRotation,
                   controlsEnabled, lastMouse>>

\* The list panel's row click: toggle the selection of the row's point.
onRowClick(id) ==
    /\ selectedPointId' = IF selectedPointId = id THEN Null ELSE id
    /\ UNCHANGED <<controlPoints, pointCounter, mode, isDraggingPosition,
                   isDraggingRotation, controlsEnabled, lastMouse, pointMeshes,
                   railLine, uiPoints>>

\* The toolbar's buttons and keys: onModeChange(m).
onModeChange(m) ==
    /\ mode' = m
    /\ UNCHANGED <<controlPoints, pointCounter, selectedPointId,
                   isDraggingPosition, isDraggingRotation, controlsEnabled,
                   lastMouse, pointMeshes, railLine, uiPoints>>

----------------------------------------------------------------------------
(* The render loop of createViewport.  Each viewport has its own           *)
(* animationId; the browser holds the pending animation-frame requests of  *)
(* all of them and hands out increasing request ids.  started is history:  *)
(* whether the last of start(), stop() and dispose() on a viewport was a   *)
(* start().                                                                *)

\* The editor viewport and the player viewport.
Viewports == {"editor", "player"}

\* let animationId: number | null = null, for each viewport, with nothing
\* requested yet.
NewLoop ==
    [animationId |-> [v \in Viewports |-> Null],
     pending     |-> {},
     nextId      |-> 1,
     started     |-> [v \in Viewports |-> FALSE]]

\* The pending requests whose callback is viewport v's animate.
PendingOf(l, v) == {r \in l.pending : r.viewport = v}

\* animationId = requestAnimationFrame(animate)
requestFrame(l, v) ==
    [l EXCEPT !.animationId[v] = l.nextId,
              !.pending = @ \cup {[id |-> l.nextId, viewport |-> v]},
              !.nextId = @ + 1]

\* cancelAnimationFrame(id): the request of that id is dropped if pending.
cancelAnimationFrame(l, id) ==
    [l EXCEPT !.pending = {r \in @ : r.id # id}]

\* start()
start(l, v) ==
    [(IF l.animationId[v] = Null THEN requestFrame(l, v) ELSE l)
        EXCEPT !.started[v] = TRUE]

\* Mutant of stop: animationId is cleared but the request is not cancelled.
stop_noCancel(l, v) ==
    [l EXCEPT !.animationId[v] = Null, !.started[v] = FALSE]

\* stop()
stop(l, v) ==
    [(IF l.animationId[v] # Null
      THEN [cancelAnimationFrame(l, l.animationId[v]) EXCEPT !.animationId[v] = Null]
      ELSE l)
        EXCEPT !.started[v] = FALSE]

\* animate(time), run by the browser for the pending request r: the request
\* is consumed, the next one is made, then onFrame and renderer.render run
\* (neither calls start or stop: the editor's onFrame is controls.update()
\* and the player has none).
animate(l, r) ==
    requestFrame([l EXCEPT !.pending = @ \ {r}], r.viewport)

----------------------------------------------------------------------------
(* The editor as a state machine: one action per event.                    *)

\* What an event did, for the history variable lastEvent.
Event(type, outcome) == [type |-> type, outcome |-> outcome]

Init ==
    /\ controlPoints = <<>>
    /\ pointCounter = 0
    /\ mode = "select"
    /\ selectedPointId = Null
    /\ isDraggingPosition = FALSE
    /\ isDraggingRotation = FALSE
    /\ controlsEnabled = TRUE
    /\ lastMouse = Vec2(0, 0)
    /\ pointMeshes = <<>>
    /\ railLine = <<>>
    /\ uiPoints = <<>>
    /\ dragStart = None
    /\ lastSample = Vec2(0, 0)
    /\ lastEvent = Event("init", "init")
    /\ generatedIds = {}
    /\ heap = <<>>
    /\ held = None
    /\ calls = 0
    /\ player = None
    /\ loop = NewLoop

\* The ray-cast results a pointer-down reads: the mesh hit in select mode,
\* the plane intersection in create mode (the other is never computed).
DownHits == IF mode = "select" THEN Hits ELSE {None}
DownIntersections == IF mode = "create" THEN Intersections ELSE {None}

\* The plane intersection a pointer-move reads: only in a position drag.
MoveIntersections ==
    IF mode = "select" /\ selectedPointId # Null /\ isDraggingPosition
    THEN Intersections ELSE {None}

\* pointerdown on the container.
PointerDown ==
    \E button \in Buttons, mouse \in MousePositions,
       hit \in DownHits, intersection \in DownIntersections,
       cameraQuaternion \in CameraQuats :
        /\ (button = 0 /\ mode = "create" /\ intersection # None)
              => pointCounter < MaxPoints
        /\ handlePointerDown(button, mouse, hit, intersection, cameraQuaternion)
        /\ lastSample' = IF ~isDraggingRotation' THEN lastMouse'
                         ELSE IF button = 0 THEN mouse ELSE lastSample
        /\ generatedIds' =
             IF button = 0 /\ mode = "create" /\ intersection # None
             THEN generatedIds \cup {generatePointId(pointCounter)}
             ELSE generatedIds
        /\ UNCHANGED otherVars
        /\ dragStart' =
             IF button = 0 /\ mode = "select" /\ hit # None THEN hit ELSE dragStart
        /\ lastEvent' = Event("pointerdown",
             IF button # 0 THEN "ignored"
             ELSE IF mode = "create"
                  THEN (IF intersection # None THEN "created" ELSE "skipped")
             ELSE IF hit = None THEN "nohit"
             ELSE IF hit[1].hitCone THEN "cone" ELSE "body")

\* pointermove on the container.
PointerMove ==
    \E mouse \in MousePositions, intersection \in MoveIntersections :
        /\ handlePointerMove(mouse, intersection)
        /\ lastSample' = IF isDraggingRotation' THEN mouse ELSE lastMouse'
        /\ UNCHANGED <<dragStart, generatedIds, otherVars>>
        /\ lastEvent' = Event("pointermove",
             IF mode # "select" \/ selectedPointId = Null THEN "ignored"
             ELSE IF isDraggingPosition
                  THEN (IF intersection # None THEN "moved" ELSE "skipped")
             ELSE IF isDraggingRotation THEN "rotated"
             ELSE "idle")

\* pointerup on the container.
PointerUp ==
    /\ handlePointerUp
    /\ dragStart' = None
    /\ lastSample' = lastMouse'
    /\ UNCHANGED <<generatedIds, otherVars>>
    /\ lastEvent' = Event("pointerup", IF Idle THEN "idle" ELSE "released")

\* pointerleave on the container.
PointerLeave ==
    /\ handlePointerUp
    /\ dragStart' = None
    /\ lastSample' = lastMouse'
    /\ UNCHANGED <<generatedIds, otherVars>>
    /\ lastEvent' = Event("pointerleave", IF Idle THEN "idle" ELSE "released")

\* A click on the delete button of a rendered row.
DeleteClick ==
    \E i \in 1..Len(uiPoints) :
        /\ deleteControlPoint(uiPoints[i].id)
        /\ UNCHANGED <<dragStart, lastSample, generatedIds, otherVars>>
        /\ lastEvent' = Event("delete",
             IF selectedPointId = uiPoints[i].id THEN "selected" ELSE "other")

\* A click on a rendered row.
RowClick ==
    \E i \in 1..Len(uiPoints) :
        /\ onRowClick(uiPoints[i].id)
        /\ UNCHANGED <<dragStart, lastSample, generatedIds, otherVars>>
        /\ lastEvent' = Event("rowclick",
             IF selectedPointId = uiPoints[i].id THEN "deselect" ELSE "select")

\* A toolbar button or shortcut key.
ModeChange ==
    \E m \in Modes :
        /\ onModeChange(m)
        /\ UNCHANGED <<dragStart, lastSample, generatedIds, otherVars>>
        /\ lastEvent' = Event("mode", m)

Next ==
    \/ PointerDown
    \/ PointerMove
    \/ PointerUp
    \/ PointerLeave
    \/ DeleteClick
    \/ RowClick
    \/ ModeChange

Spec == Init /\ [][Next]_vars

----------------------------------------------------------------------------
(* The rail store called directly (CameraRailSystem): one action per call  *)
(* of its interface, on the rail of a session in which no editor event is  *)
(* handled.  lastEvent records the call and what became of it.             *)

\* The ids a caller passes: every id the session can generate and one more,
\* so that at least one is always absent from the rail.
CallIds == 0..MaxRailPoints

\* The quaternion argument of addPoint and updatePoint: omitted or given.
CallQuats == {Some(q) : q \in CameraQuats} \cup {None}

\* The newIndex argument of reorderPoint: before the start, in range, far
\* beyond the end.
NewIndexes == {0 - 1, 0, 1, 1000}

\* What the editor holds: untouched by calls to the rail store.
editorVars == <<mode, selectedPointId, isDraggingPosition, isDraggingRotation,
                controlsEnabled, lastMouse, pointMeshes, railLine, uiPoints,
                dragStart, lastSample>>

\* An addPoint call for lastEvent: the rail it was made on as well.
AddEvent(outcome, before) ==
    [type |-> "addPoint", outcome |-> outcome, before |-> before]

\* rail.addPoint(position, quaternion?)
AddPoint ==
    \E position \in PlanePoints, quaternion \in CallQuats :
        /\ pointCounter < MaxRailPoints
        /\ controlPoints' = addPoint(controlPoints, pointCounter, position, quaternion)
        /\ pointCounter' = pointCounter + 1
        /\ generatedIds' = generatedIds \cup {generatePointId(pointCounter)}
        /\ lastEvent' = AddEvent(IF quaternion = None THEN "default" ELSE "given",
                                 controlPoints)
        /\ UNCHANGED <<editorVars, otherVars>>

\* rail.removePoint(id)
RemovePoint ==
    \E id \in CallIds :
        /\ controlPoints' = removePoint(controlPoints, id)
        /\ lastEvent' = Event("removePoint",
             IF id \notin IdSet(controlPoints) THEN "absent"
             ELSE IF lastEvent.type = "addPoint" /\ id = generatePointId(pointCounter - 1)
                  THEN "justAdded"
             ELSE "removed")
        /\ UNCHANGED <<pointCounter, generatedIds, editorVars, otherVars>>

\* rail.updatePoint(id, position?, quaternion?)
UpdatePoint ==
    \E id \in CallIds, position \in Intersections, quaternion \in CallQuats :
        /\ controlPoints' = updatePoint(controlPoints, id, position, quaternion)
        /\ lastEvent' = Event("updatePoint",
             IF id \notin IdSet(controlPoints) THEN "absent" ELSE "present")
        /\ UNCHANGED <<pointCounter, generatedIds, editorVars, otherVars>>

\* rail.reorderPoint(id, newIndex)
ReorderPoint ==
    \E id \in CallIds, newIndex \in NewIndexes :
        /\ controlPoints' = reorderPoint(controlPoints, id, newIndex)
        /\ lastEvent' = Event("reorderPoint",
             IF id \notin IdSet(controlPoints) THEN "absent"
             ELSE IF newIndex < 0 THEN "below"
             ELSE IF newIndex > Len(controlPoints) - 1 THEN "beyond"
             ELSE "within")
        /\ UNCHANGED <<pointCounter, generatedIds, editorVars, otherVars>>

\* rail.getPoint(id)
GetPoint ==
    \E id \in CallIds :
        /\ lastEvent' = Event("getPoint",
             IF getPoint(controlPoints, id) = None THEN "notFound" ELSE "found")
        /\ UNCHANGED <<controlPoints, pointCounter, generatedIds, editorVars, otherVars>>

\* rail.fromJSON(rail.toJSON()): the rail is rebuilt from its own snapshot.
RoundTrip ==
    /\ controlPoints' = fromJSON(toJSON(controlPoints))
    /\ lastEvent' = Event("fromJSON", "roundTrip")
    /\ UNCHANGED <<pointCounter, generatedIds, editorVars, otherVars>>

\* rail.dispose()
Dispose ==
    /\ controlPoints' = dispose(controlPoints)
    /\ lastEvent' = Event("dispose",
         IF Len(controlPoints) = 0 THEN "empty" ELSE "nonEmpty")
    /\ UNCHANGED <<pointCounter, generatedIds, editorVars, otherVars>>

\* addPoint on another rail made by createCameraRailSystem: the id counter
\* is a variable of the module, shared by every rail of the session.
OtherRailAddPoint ==
    /\ pointCounter < MaxRailPoints
    /\ pointCounter' = pointCounter + 1
    /\ generatedIds' = generatedIds \cup {generatePointId(pointCounter)}
    /\ lastEvent' = Event("otherRail", "addPoint")
    /\ UNCHANGED <<controlPoints, editorVars, otherVars>>

RailNext ==
    \/ AddPoint
    \/ RemovePoint
    \/ UpdatePoint
    \/ ReorderPoint
    \/ GetPoint
    \/ RoundTrip
    \/ Dispose
    \/ OtherRailAddPoint

RailSpec == Init /\ [][RailNext]_vars

----------------------------------------------------------------------------
(* getPose as a function of the rail and of t: the rail is any sequence of *)
(* up to MaxRailPoints points as addPoint creates them in turn, each at    *)
(* any of the positions and orientations below, and every step is one call *)
(* of getPose.                                                             *)

\* Positions of the points: three evenly spaced on a line.
PosePositions == {Vec3(0, 0, 0), Vec3(1, 2, 0 - 1), Vec3(2, 4, 0 - 2)}

\* Orientations of the points: the identity, a half turn about Y (at a right
\* angle to the identity as quaternions), and the identity's negative (the
\* same rotation as the identity, which a full-turn rotation drag produces).
PoseQuats == {IdentityQuat, Quat(0, 1, 0, 0), Negated(IdentityQuat)}

\* The rails of n points with the ids generated in turn.
PoseRails(n) ==
    {[i \in 1..n |-> [id |-> generatePointId(i - 1),
                      position |-> ps[i], quaternion |-> qs[i]]] :
        ps \in [1..n -> PosePositions], qs \in [1..n -> PoseQuats]}

PoseInit ==
    /\ controlPoints \in UNION {PoseRails(n) : n \in 0..MaxRailPoints}
    /\ pointCounter = Len(controlPoints)
    /\ mode = "select"
    /\ selectedPointId = Null
    /\ isDraggingPosition = FALSE
    /\ isDraggingRotation = FALSE
    /\ controlsEnabled = TRUE
    /\ lastMouse = Vec2(0, 0)
    /\ pointMeshes = <<>>
    /\ railLine = <<>>
    /\ uiPoints = <<>>
    /\ dragStart = None
    /\ lastSample = Vec2(0, 0)
    /\ lastEvent = Event("init", "init")
    /\ generatedIds = IdSet(controlPoints)
    /\ heap = <<>>
    /\ held = None
    /\ calls = 0
    /\ player = None
    /\ loop = NewLoop

\* rail.getPose(t)
GetPose ==
    \E t \in Progresses :
        /\ lastEvent' = Event("getPose",
             [t |-> t, result |-> getPose(controlPoints, t)])
        /\ UNCHANGED <<controlPoints, pointCounter, generatedIds, editorVars, otherVars>>

PoseNext == GetPose

PoseSpec == PoseInit /\ [][PoseNext]_vars

----------------------------------------------------------------------------
(* The player viewport (createPlayerViewport) on a rail that its owner      *)
(* goes on changing: player is None until the viewport is created, then the *)
(* viewport's camera pose and currentProgress.                              *)

\* new THREE.PerspectiveCamera(...): at the origin with the identity.
NewCamera ==
    [position |-> NumVec(Vec3(0, 0, 0)), quaternion |-> IdentityQuat]

\* The t a caller passes to setProgress: below 0, the ends, inside, above 1.
PlayerProgresses == {Rat(0 - 1, 2), Num(0), Rat(1, 2), Num(1), Rat(3, 2)}

\* Mutant of updateCameraFromRail: without a pose the camera goes back to
\* where it was constructed.
updateCameraFromRail_resets(camera, points, t) ==
    LET pose == getPose(points, t)
    IN  IF pose # None
        THEN [position |-> pose[1].position, quaternion |-> pose[1].quaternion]
        ELSE NewCamera

\* updateCameraFromRail(t): copy the pose into the camera when there is one.
updateCameraFromRail(camera, points, t) ==
    LET pose == getPose(points, t)
    IN  IF pose # None
        THEN [position |-> pose[1].position, quaternion |-> pose[1].quaternion]
        ELSE camera

\* createPlayerViewport(options): currentProgress = 0, a new camera,
\* updateCameraFromRail(0).
createPlayerViewport(points) ==
    [camera |-> updateCameraFromRail(NewCamera, points, Num(0)),
     currentProgress |-> Num(0)]

\* Mutant of setProgress: the progress is stored as given.
setProgress_noClamp(viewport, points, t) ==
    [camera |-> updateCameraFromRail(viewport.camera, points, t),
     currentProgress |-> t]

\* setProgress(t): clamp into currentProgress, then updateCameraFromRail.
setProgress(viewport, points, t) ==
    LET clamped == RMax(Num(0), RMin(Num(1), t))
    IN  [camera |-> updateCameraFromRail(viewport.camera, points, clamped),
         currentProgress |-> clamped]

\* getProgress()
getProgress(viewport) == viewport.currentProgress

\* createPlayerViewport({ container, scene, rail })
CreatePlayerViewport ==
    /\ player' = Some(createPlayerViewport(controlPoints))
    /\ lastEvent' = Event("createPlayerViewport",
         IF Len(controlPoints) = 0 THEN "empty" ELSE "posed")
    /\ UNCHANGED <<controlPoints, pointCounter, generatedIds, editorVars,
                   storeVars, loop>>

\* player.setProgress(t)
SetProgress ==
    \E t \in PlayerProgresses :
        /\ player # None
        /\ player' = Some(setProgress(player[1], controlPoints, t))
        /\ lastEvent' = Event("setProgress",
             IF Len(controlPoints) = 0 THEN "empty" ELSE "posed")
        /\ UNCHANGED <<controlPoints, pointCounter, generatedIds, editorVars,
                       storeVars, loop>>

PlayerNext ==
    \/ AddPoint
    \/ RemovePoint
    \/ Dispose
    \/ CreatePlayerViewport
    \/ SetProgress

PlayerSpec == Init /\ [][PlayerNext]_vars

----------------------------------------------------------------------------
(* The store seen as references.  heap is the sequence of the objects that  *)
(* exist, an object's address is its index, and an object that holds        *)
(* another holds its address.  The rail's own array (const controlPoints of *)
(* createCameraRailSystem) is the object at address 1.  A "value" is a      *)
(* THREE.Vector3, a THREE.Quaternion or a plain { x, y, z[, w] } object; a  *)
(* "point" is a ControlPoint or a ControlPointData; a "pose" is a           *)
(* CameraPose; an "array" is a JavaScript array of points; an "export" is a *)
(* RailbirdExport.  Objects no reference leads to any more are collected,   *)
(* the others keep their order.                                             *)

Value(v) == [kind |-> "value", value |-> v]
PointObj(id, position, quaternion) ==
    [kind |-> "point", id |-> id, position |-> position, quaternion |-> quaternion]
PoseObj(position, quaternion) ==
    [kind |-> "pose", position |-> position, quaternion |-> quaternion]
ArrayObj(items) == [kind |-> "array", items |-> items]

\* const controlPoints: ControlPoint[] = []
RailArray == 1

\* The addresses an object holds.
Refs(object) ==
    IF object.kind = "array" THEN {object.items[i] : i \in 1..Len(object.items)}
    ELSE IF object.kind \in {"point", "pose"}
         THEN {object.position, object.quaternion}
    ELSE IF object.kind = "export" THEN {object.controlPoints}
    ELSE {}

\* The objects reachable from a set of addresses: an export leads to an
\* array, an array to points, a point to values.
Grow(h, addresses) ==
    addresses \cup UNION {Refs(h[a]) : a \in addresses}
Reach(h, addresses) == Grow(h, Grow(h, Grow(h, addresses)))

\* A point as the values it holds.
PointView(h, a) ==
    [id |-> h[a].id,
     position |-> h[h[a].position].value,
     quaternion |-> h[h[a].quaternion].value]

\* An array of points as the values it holds.
ArrayView(h, a) ==
    [i \in 1..Len(h[a].items) |-> PointView(h, h[a].items[i])]

\* The rail as the values it holds.
RailView(h) == ArrayView(h, RailArray)

\* A pose as the values it holds.
PoseView(h, a) ==
    [position |-> h[h[a].position].value,
     quaternion |-> h[h[a].quaternion].value]

\* Collection: the live objects in their order, every address renumbered.
NewAddress(live, a) == Cardinality({b \in live : b <= a})
OldAddress(live, i) == CHOOSE a \in live : NewAddress(live, a) = i
Relocated(object, live) ==
    IF object.kind = "array"
    THEN [object EXCEPT !.items =
            [i \in 1..Len(@) |-> NewAddress(live, @[i])]]
    ELSE IF object.kind \in {"point", "pose"}
         THEN [object EXCEPT !.position = NewAddress(live, @),
                             !.quaternion = NewAddress(live, @)]
    ELSE IF object.kind = "export"
         THEN [object EXCEPT !.controlPoints = NewAddress(live, @)]
    ELSE object
Collect(h, live) ==
    [i \in 1..Cardinality(live) |-> Relocated(h[OldAddress(live, i)], live)]

\* addPoint on the objects: position.clone(), quaternion?.clone() ?? new
\* THREE.Quaternion(), a new point object, controlPoints.push(point).
addPointObj(h, id, position, quaternion) ==
    LET n == Len(h)
        h1 == h \o << Value(position),
                      Value(IF quaternion # None THEN quaternion[1]
                            ELSE IdentityQuat),
                      PointObj(id, n + 1, n + 2) >>
    IN  [h1 EXCEPT ![RailArray].items = Append(@, n + 3)]

\* removePoint on the objects: controlPoints.splice(index, 1).
removePointObj(h, id) ==
    LET index == findIndex(RailView(h), id)
    IN  IF index # 0
        THEN [h EXCEPT ![RailArray].items =
                SubSeq(@, 1, index - 1) \o SubSeq(@, index + 1, Len(@))]
        ELSE h

\* updatePoint on the objects: point.position.copy(position) and
\* point.quaternion.copy(quaternion) write into the point's own values.
updatePointObj(h, id, position, quaternion) ==
    LET index == findIndex(RailView(h), id)
    IN  IF index = 0 THEN h
        ELSE LET point == h[h[RailArray].items[index]]
                 h1 == IF position # None
                       THEN [h EXCEPT ![point.position].value = position[1]]
                       ELSE h
             IN  IF quaternion # None
                 THEN [h1 EXCEPT ![point.quaternion].value = quaternion[1]]
                 ELSE h1

\* reorderPoint on the objects: the point object itself is moved.
reorderPointObj(h, id, newIndex) ==
    LET currentIndex == findIndex(RailView(h), id)
        items == h[RailArray].items
    IN  IF currentIndex = 0 THEN h
        ELSE LET point == items[currentIndex]
                 spliced == SubSeq(items, 1, currentIndex - 1)
                               \o SubSeq(items, currentIndex + 1, Len(items))
                 clampedIndex == Max(0, Min(newIndex, Len(spliced)))
             IN  [h EXCEPT ![RailArray].items =
                     SubSeq(spliced, 1, clampedIndex) \o <<point>>
                         \o SubSeq(spliced, clampedIndex + 1, Len(spliced))]

\* dispose on the objects: controlPoints.length = 0.
disposeObj(h) == [h EXCEPT ![RailArray].items = <<>>]

\* What a call that returns an object gives: the objects after the call and
\* the address returned, 0 for null.
Returned(h, ref) == [heap |-> h, ref |-> ref]

\* Mutant of toJSONObj: every entry holds the point's own position object.
toJSONObj_sharesPosition(h) ==
    LET n0 == Len(h)
        points == h[RailArray].items
        n == Len(points)
        New(k) ==
            IF k = 1 THEN ArrayObj([i \in 1..n |-> n0 + 1 + 3 * i])
            ELSE LET p == h[points[(k - 2) \div 3 + 1]]
                     r == (k - 2) % 3
                 IN  IF r = 0
                     THEN Value([x |-> h[p.position].value.x,
                                 y |-> h[p.position].value.y,
                                 z |-> h[p.position].value.z])
                     ELSE IF r = 1
                     THEN Value([x |-> h[p.quaternion].value.x,
                                 y |-> h[p.quaternion].value.y,
                                 z |-> h[p.quaternion].value.z,
                                 w |-> h[p.quaternion].value.w])
                     ELSE PointObj(p.id, p.position, n0 + k - 1)
    IN  Returned(h \o [k \in 1..(3 * n + 1) |-> New(k)], n0 + 1)

\* toJSON on the objects: controlPoints.map builds a new array; every entry
\* is a new object holding the id and two new plain objects that the
\* coordinates are copied into, number by number.
toJSONObj(h) ==
    LET n0 == Len(h)
        points == h[RailArray].items
        n == Len(points)
        New(k) ==
            IF k = 1 THEN ArrayObj([i \in 1..n |-> n0 + 1 + 3 * i])
            ELSE LET p == h[points[(k - 2) \div 3 + 1]]
                     r == (k - 2) % 3
                 IN  IF r = 0
                     THEN Value([x |-> h[p.position].value.x,
                                 y |-> h[p.position].value.y,
                                 z |-> h[p.position].value.z])
                     ELSE IF r = 1
                     THEN Value([x |-> h[p.quaternion].value.x,
                                 y |-> h[p.quaternion].value.y,
                                 z |-> h[p.quaternion].value.z,
                                 w |-> h[p.quaternion].value.w])
                     ELSE PointObj(p.id, n0 + k - 2, n0 + k - 1)
    IN  Returned(h \o [k \in 1..(3 * n + 1) |-> New(k)], n0 + 1)

\* Mutant of fromJSONObj: the entries of data themselves are pushed.
fromJSONObj_pushesData(h, data) ==
    [h EXCEPT ![RailArray].items = h[data].items]

\* fromJSON on the objects: controlPoints.length = 0, then for every entry
\* of data a new point object with a new Vector3 and a new Quaternion built
\* from the entry's numbers is pushed.
fromJSONObj(h, data) ==
    LET n0 == Len(h)
        entries == h[data].items
        n == Len(entries)
        New(k) ==
            LET d == h[entries[(k - 1) \div 3 + 1]]
                r == (k - 1) % 3
            IN  IF r = 0
                THEN Value(Vec3(h[d.position].value.x, h[d.position].value.y,
                                h[d.position].value.z))
                ELSE IF r = 1
                THEN Value(Quat(h[d.quaternion].value.x, h[d.quaternion].value.y,
                                h[d.quaternion].value.z, h[d.quaternion].value.w))
                ELSE PointObj(d.id, n0 + k - 2, n0 + k - 1)
        h1 == h \o [k \in 1..(3 * n) |-> New(k)]
    IN  [h1 EXCEPT ![RailArray].items = [i \in 1..n |-> n0 + 3 * i]]

\* Mutant of getPoseObj: the pose of a single point holds the point's own
\* quaternion.
getPoseObj_singleNoClone(h, t) ==
    LET pose == getPose(RailView(h), t)
        n0 == Len(h)
    IN  IF pose = None THEN Returned(h, 0)
        ELSE IF Len(h[RailArray].items) = 1
        THEN Returned(h \o << Value(pose[1].position),
                              PoseObj(n0 + 1, h[h[RailArray].items[1]].quaternion) >>,
                      n0 + 2)
        ELSE Returned(h \o << Value(pose[1].position),
                              Value(pose[1].quaternion),
                              PoseObj(n0 + 1, n0 + 2) >>, n0 + 3)

\* getPose on the objects: null on the empty rail; otherwise a new object
\* holding a new Vector3 and a new Quaternion, the clones of the single
\* point's or the ones lerpVectors and slerpQuaternions are called on.
getPoseObj(h, t) ==
    LET pose == getPose(RailView(h), t)
        n0 == Len(h)
    IN  IF pose = None THEN Returned(h, 0)
        ELSE Returned(h \o << Value(pose[1].position),
                              Value(pose[1].quaternion),
                              PoseObj(n0 + 1, n0 + 2) >>, n0 + 3)

\* EXPORT_VERSION
EXPORT_VERSION == "1.0"

\* Mutant of createExportObj: the export holds the rail's own array.
createExportObj_live(h, options) ==
    Returned(Append(h, [kind |-> "export",
                        version |-> EXPORT_VERSION,
                        url |-> options.sceneUrl,
                        controlPoints |-> RailArray,
                        interpolation |->
                            IF options.interpolation # None
                            THEN options.interpolation[1] ELSE "linear"]),
             Len(h) + 1)

\* createExport(options): a new record holding the version, the scene url,
\* the array it was given and the interpolation, "linear" when omitted.
createExportObj(h, options) ==
    Returned(Append(h, [kind |-> "export",
                        version |-> EXPORT_VERSION,
                        url |-> options.sceneUrl,
                        controlPoints |-> options.controlPoints,
                        interpolation |->
                            IF options.interpolation # None
                            THEN options.interpolation[1] ELSE "linear"]),
             Len(h) + 1)

\* An export as the values it holds.
ExportView(h, a) ==
    [version |-> h[a].version,
     scene |-> [url |-> h[a].url],
     rail |-> [controlPoints |-> ArrayView(h, h[a].controlPoints),
               interpolation |-> h[a].interpolation]]

----------------------------------------------------------------------------
(* The store under calls of its interface by a caller who keeps what the   *)
(* last call returned (held: what it is and its address) and may write to   *)
(* any object reachable from it.  controlPoints is the rail as values, kept *)
(* by the operators on values next to the rail of objects.                  *)

\* The id of the entries of a list the caller makes up, which is also the id
\* the caller writes into an entry.
DataIds == {100}

\* The lists the caller makes up: any ids, repeated ones as well.
CallerLists ==
    UNION {[1..n -> DataIds] : n \in 0..MaxStorePoints}

\* The t of a getPose call here: an end and inside.
StoreProgresses == {Num(0), Rat(1, 2)}

\* The scene url of the page, and the interpolation option of createExport.
SceneUrls == {"a.ply", "b.ply"}
Interpolations == {None, Some("catmull-rom")}

\* The fields an updatePoint call here supplies: one of the two.
UpdatedFields ==
    {[position |-> Some(Vec3(1, 0, 0)), quaternion |-> None],
     [position |-> None, quaternion |-> Some(Quat(0, 1, 0, 0))]}

\* The calls that change the rail.
RailCalls ==
    {"addPoint", "removePoint", "updatePoint", "reorderPoint", "dispose"}

StoreInit ==
    /\ controlPoints = <<>>
    /\ pointCounter = 0
    /\ mode = "select"
    /\ selectedPointId = Null
    /\ isDraggingPosition = FALSE
    /\ isDraggingRotation = FALSE
    /\ controlsEnabled = TRUE
    /\ lastMouse = Vec2(0, 0)
    /\ pointMeshes = <<>>
    /\ railLine = <<>>
    /\ uiPoints = <<>>
    /\ dragStart = None
    /\ lastSample = Vec2(0, 0)
    /\ lastEvent = Event("init", "init")
    /\ generatedIds = {}
    /\ heap = <<ArrayObj(<<>>)>>
    /\ held = None
    /\ calls = 0
    /\ player = None
    /\ loop = NewLoop

\* A call of the session and its end: the caller holds hd, what nothing
\* leads to is collected.
Settle(h, hd) ==
    LET live == Reach(h, {RailArray} \cup
                         (IF hd = None THEN {} ELSE {hd[1].ref}))
    IN  /\ calls < MaxCalls
        /\ calls' = calls + 1
        /\ heap' = Collect(h, live)
        /\ held' = IF hd = None THEN None
                   ELSE Some([hd[1] EXCEPT !.ref = NewAddress(live, @)])

Holding(kind, ref) == Some([kind |-> kind, ref |-> ref])

\* rail.addPoint(position, quaternion?)
StoreAddPoint ==
    \E position \in {Vec3(0, 0, 0)}, quaternion \in CallQuats :
        /\ pointCounter < MaxStorePoints
        /\ Len(controlPoints) < MaxStorePoints
        /\ controlPoints' = addPoint(controlPoints, pointCounter, position, quaternion)
        /\ pointCounter' = pointCounter + 1
        /\ generatedIds' = generatedIds \cup {generatePointId(pointCounter)}
        /\ Settle(addPointObj(heap, generatePointId(pointCounter), position,
                              quaternion), held)
        /\ lastEvent' = Event("addPoint", "rail")
        /\ UNCHANGED <<editorVars, viewVars>>

\* rail.removePoint(id)
StoreRemovePoint ==
    \E id \in IdSet(controlPoints) :
        /\ controlPoints' = removePoint(controlPoints, id)
        /\ Settle(removePointObj(heap, id), held)
        /\ lastEvent' = Event("removePoint", "rail")
        /\ UNCHANGED <<pointCounter, generatedIds, editorVars, viewVars>>

\* rail.updatePoint(id, position?, quaternion?)
StoreUpdatePoint ==
    \E id \in IdSet(controlPoints), fields \in UpdatedFields :
        /\ controlPoints' = updatePoint(controlPoints, id, fields.position,
                                        fields.quaternion)
        /\ Settle(updatePointObj(heap, id, fields.position, fields.quaternion),
                  held)
        /\ lastEvent' = Event("updatePoint", "rail")
        /\ UNCHANGED <<pointCounter, generatedIds, editorVars, viewVars>>

\* rail.reorderPoint(id, newIndex)
StoreReorderPoint ==
    \E id \in IdSet(controlPoints), newIndex \in {0, 1000} :
        /\ controlPoints' = reorderPoint(controlPoints, id, newIndex)
        /\ Settle(reorderPointObj(heap, id, newIndex), held)
        /\ lastEvent' = Event("reorderPoint", "rail")
        /\ UNCHANGED <<pointCounter, generatedIds, editorVars, viewVars>>

\* rail.dispose()
StoreDispose ==
    /\ controlPoints' = dispose(controlPoints)
    /\ Settle(disposeObj(heap), held)
    /\ lastEvent' = Event("dispose", "rail")
    /\ UNCHANGED <<pointCounter, generatedIds, editorVars, viewVars>>

\* const snapshot = rail.toJSON()
ToJSON ==
    LET returned == toJSONObj(heap)
    IN  /\ Settle(returned.heap, Holding("snapshot", returned.ref))
        /\ lastEvent' = Event("toJSON", "snapshot")
        /\ UNCHANGED <<controlPoints, pointCounter, generatedIds, editorVars,
                       viewVars>>

\* The caller makes up a list: a new array of new entries.
CallerData ==
    \E list \in CallerLists :
        LET n0 == Len(heap)
            n == Len(list)
            New(k) ==
                IF k = 1 THEN ArrayObj([i \in 1..n |-> n0 + 1 + 3 * i])
                ELSE LET r == (k - 2) % 3
                     IN  IF r = 0 THEN Value(Vec3(1, 0, 0))
                         ELSE IF r = 1 THEN Value(Quat(0, 1, 0, 0))
                         ELSE PointObj(list[(k - 2) \div 3 + 1],
                                       n0 + k - 2, n0 + k - 1)
        IN  /\ Settle(heap \o [k \in 1..(3 * n + 1) |-> New(k)],
                      Holding("data", n0 + 1))
            /\ lastEvent' = Event("callerData", "data")
            /\ UNCHANGED <<controlPoints, pointCounter, generatedIds,
                           editorVars, viewVars>>

\* rail.fromJSON(data), data being the list the caller holds.
FromJSON ==
    /\ held # None
    /\ held[1].kind \in {"snapshot", "data", "loaded"}
    /\ controlPoints' = fromJSON(ArrayView(heap, held[1].ref))
    /\ Settle(fromJSONObj(heap, held[1].ref), Holding("loaded", held[1].ref))
    /\ lastEvent' = Event("fromJSON", held[1].kind)
    /\ UNCHANGED <<pointCounter, generatedIds, editorVars, viewVars>>

\* const pose = rail.getPose(t)
StoreGetPose ==
    \E t \in StoreProgresses :
        LET returned == getPoseObj(heap, t)
        IN  /\ Settle(returned.heap,
                      IF returned.ref = 0 THEN None
                      ELSE Holding("pose", returned.ref))
            /\ lastEvent' = [type |-> "getPose",
                             outcome |-> IF returned.ref = 0 THEN "null" ELSE "pose",
                             t |-> t]
            /\ UNCHANGED <<controlPoints, pointCounter, generatedIds,
                           editorVars, viewVars>>

\* handleExport of the export button: the rail's snapshot is exported with
\* the page's scene url, unless the rail is empty.
HandleExport ==
    \E url \in SceneUrls :
        LET snapshot == toJSONObj(heap)
            returned == createExportObj(snapshot.heap,
                            [sceneUrl |-> url,
                             controlPoints |-> snapshot.ref,
                             interpolation |-> None])
        IN  /\ IF Len(snapshot.heap[snapshot.ref].items) = 0
               THEN /\ Settle(heap, held)
                    /\ lastEvent' = Event("handleExport", "empty")
               ELSE /\ Settle(returned.heap, Holding("export", returned.ref))
                    /\ lastEvent' = [type |-> "handleExport",
                                     outcome |-> "export",
                                     sceneUrl |-> url,
                                     interpolation |-> None]
            /\ UNCHANGED <<controlPoints, pointCounter, generatedIds,
                           editorVars, viewVars>>

\* createExport({ sceneUrl, controlPoints, interpolation? }) with the list
\* the caller holds.
CreateExport ==
    \E url \in SceneUrls, interpolation \in Interpolations :
        /\ held # None
        /\ held[1].kind \in {"snapshot", "data", "loaded"}
        /\ LET returned == createExportObj(heap,
                               [sceneUrl |-> url,
                                controlPoints |-> held[1].ref,
                                interpolation |-> interpolation])
           IN  Settle(returned.heap, Holding("export", returned.ref))
        /\ lastEvent' = [type |-> "createExport", outcome |-> "export",
                         sceneUrl |-> url, interpolation |-> interpolation]
        /\ UNCHANGED <<controlPoints, pointCounter, generatedIds, editorVars,
                       viewVars>>

\* The values a caller writes into a value object: another position or
\* another orientation.
Written(kind, value) ==
    IF DOMAIN value = {"x", "y", "z"}
    THEN IF kind = "pose"
         THEN {NumVec(Vec3(0, 0, 0)), NumVec(Vec3(1, 0, 0))} \ {value}
         ELSE {Vec3(0, 0, 0), Vec3(1, 0, 0)} \ {value}
    ELSE {IdentityQuat, Quat(0, 1, 0, 0)} \ {value}

\* The caller writes to an object reachable from what it holds: a
\* coordinate of a value, the id of an entry, or array.shift().
CallerMutates ==
    /\ held # None
    /\ \E a \in Reach(heap, {held[1].ref}) :
          /\ heap[a].kind \in {"value", "point", "array"}
          /\ heap[a].kind = "array" => Len(heap[a].items) > 0
          /\ \E v \in (IF heap[a].kind = "value" THEN Written(held[1].kind, heap[a].value)
                        ELSE IF heap[a].kind = "point" THEN DataIds \ {heap[a].id}
                        ELSE {0}) :
                Settle(IF heap[a].kind = "value"
                       THEN [heap EXCEPT ![a].value = v]
                       ELSE IF heap[a].kind = "point"
                       THEN [heap EXCEPT ![a].id = v]
                       ELSE [heap EXCEPT ![a].items = Tail(@)],
                       held)
    /\ lastEvent' = Event("callerMutates", held[1].kind)
    /\ UNCHANGED <<controlPoints, pointCounter, generatedIds, editorVars, viewVars>>

StoreNext ==
    \/ StoreAddPoint
    \/ StoreRemovePoint
    \/ StoreUpdatePoint
    \/ StoreReorderPoint
    \/ StoreDispose
    \/ ToJSON
    \/ CallerData
    \/ FromJSON
    \/ StoreGetPose
    \/ HandleExport
    \/ CreateExport
    \/ CallerMutates

StoreSpec == StoreInit /\ [][StoreNext]_vars

\* The rail of objects holds what the rail of values holds.
StoreRailIsControlPoints == RailView(heap) = controlPoints

----------------------------------------------------------------------------
(* Properties of the pointer interaction machine.                          *)

Positions(points) == [i \in 1..Len(points) |-> points[i].position]
Quaternions(points) == [i \in 1..Len(points) |-> points[i].quaternion]

\* A drag is active and the point its pointer-down hit is no longer in the
\* rail: ids are never reused, so the point was deleted during the drag.
DraggedPointDeleted ==
    /\ dragStart # None
    /\ dragStart[1].pointId \notin IdSet(controlPoints)

\* C1: in every reachable state at most one of the position-drag flag and
\* the rotation-drag flag is set.
C1_AtMostOneDrag == ~(isDraggingPosition /\ isDraggingRotation)

\* C2: in every reachable state the orbit controls are enabled exactly when
\* the machine is Idle (no drag flag set): entering a drag disables them,
\* leaving it re-enables them.
C2_ControlsEnabledIffIdle == controlsEnabled <=> Idle

C2_Witness == ~Idle /\ ~controlsEnabled /\ dragStart # None

\* C3: right after a pointer-up or a pointer-leave, whatever the state it
\* was handled in, the machine is Idle and the orbit controls are enabled.
C3_ReleaseReturnsToIdle ==
    lastEvent.type \in {"pointerup", "pointerleave"} => Idle /\ controlsEnabled

C3_Witness ==
    /\ lastEvent = Event("pointerleave", "released")
    /\ Idle
    /\ controlsEnabled

\* C4: once the dragged point has been deleted during its drag, no
\* pointer-move of that drag changes the rail, and the release still returns
\* the machine to Idle with the orbit controls enabled.
C4_DeletedDragTargetFreezesRail ==
    [][/\ (PointerMove /\ DraggedPointDeleted) => controlPoints' = controlPoints
       /\ ((PointerUp \/ PointerLeave) /\ DraggedPointDeleted)
             => (~isDraggingPosition' /\ ~isDraggingRotation' /\ controlsEnabled')
      ]_vars

\* C5: a primary-button pointer-down in create mode whose ray meets the plane
\* appends exactly one point, at the intersection and with the camera's
\* orientation, syncs the visuals, switches the mode to select and leaves
\* the machine Idle; and the rail never grows in any other way.
C5_CreationIsOneShot ==
    [][/\ \A mouse \in MousePositions, p \in PlanePoints, q \in CameraQuats :
            (lastEvent'.type = "pointerdown" /\ mode = "create"
                /\ handlePointerDown(0, mouse, None, Some(p), q))
            => /\ Len(controlPoints') = Len(controlPoints) + 1
               /\ SubSeq(controlPoints', 1, Len(controlPoints)) = controlPoints
               /\ controlPoints'[Len(controlPoints')].position = p
               /\ controlPoints'[Len(controlPoints')].quaternion = q
               /\ DOMAIN pointMeshes' = IdSet(controlPoints')
               /\ Len(uiPoints') = Len(controlPoints')
               /\ mode' = "select"
               /\ ~isDraggingPosition' /\ ~isDraggingRotation'
       /\ Len(controlPoints') > Len(controlPoints)
            => (mode = "create" /\ mode' = "select")
      ]_vars

\* C6: in select mode with the machine Idle, a primary-button pointer-down
\* on a point's body selects it and starts a position drag, one on its cone
\* selects it and starts a rotation drag, one that hits nothing clears the
\* selection and stays Idle; the rail is unchanged in all three cases.
C6_SelectModePointerDown ==
    [][\A mouse \in MousePositions, hit \in Hits, q \in CameraQuats :
          (lastEvent'.type = "pointerdown" /\ Idle /\ mode = "select"
              /\ handlePointerDown(0, mouse, hit, None, q))
          => /\ controlPoints' = controlPoints
             /\ IF hit = None
                THEN /\ selectedPointId' = Null
                     /\ ~isDraggingPosition' /\ ~isDraggingRotation'
                ELSE /\ selectedPointId' = hit[1].pointId
                     /\ selectedPointId' \in IdSet(controlPoints)
                     /\ isDraggingRotation' = hit[1].hitCone
                     /\ isDraggingPosition' = ~hit[1].hitCone
      ]_vars

C6_Witness ==
    /\ lastEvent = Event("pointerdown", "cone")
    /\ isDraggingRotation /\ ~isDraggingPosition
    /\ selectedPointId = dragStart[1].pointId
    /\ Len(controlPoints) = 2

\* C7: a pointer-move of a drag started on a body changes no orientation,
\* and a pointer-move of a drag started on a cone changes no position.
C7_DragChangesOneField ==
    [][(PointerMove /\ dragStart # None)
          => IF dragStart[1].hitCone
             THEN Positions(controlPoints') = Positions(controlPoints)
             ELSE Quaternions(controlPoints') = Quaternions(controlPoints)
      ]_vars

\* C8: a pointer-move of a drag changes no point other than the one hit by
\* the pointer-down that started the drag.
C8_DragBoundToHitPoint ==
    [][(PointerMove /\ dragStart # None)
          => /\ Len(controlPoints') = Len(controlPoints)
             /\ \A i \in 1..Len(controlPoints) :
                   controlPoints[i].id # dragStart[1].pointId
                       => controlPoints'[i] = controlPoints[i]
      ]_vars

\* C9: without an intersection the event's action is skipped: a create-mode
\* pointer-down adds no point and keeps the mode, a position-drag
\* pointer-move leaves the rail, the drag and the selection as they were;
\* and a position-drag pointer-move with an intersection puts the selected
\* point there.
C9_NoIntersectionSkips ==
    [][/\ \A mouse \in MousePositions, q \in CameraQuats :
            (lastEvent'.type = "pointerdown" /\ mode = "create"
                /\ handlePointerDown(0, mouse, None, None, q))
            => /\ controlPoints' = controlPoints
               /\ mode' = "create"
       /\ \A mouse \in MousePositions :
            (lastEvent'.type = "pointermove"
                /\ mode = "select" /\ selectedPointId # Null /\ isDraggingPosition
                /\ handlePointerMove(mouse, None))
            => /\ controlPoints' = controlPoints
               /\ isDraggingPosition'
               /\ isDraggingRotation' = isDraggingRotation
               /\ selectedPointId' = selectedPointId
               /\ mode' = mode
       /\ \A mouse \in MousePositions, p \in PlanePoints :
            (lastEvent'.type = "pointermove"
                /\ mode = "select" /\ selectedPointId # Null /\ isDraggingPosition
                /\ handlePointerMove(mouse, Some(p)))
            => getPoint(controlPoints', selectedPointId) # None
                  /\ getPoint(controlPoints', selectedPointId)[1].position = p
      ]_vars

C9_Witness ==
    /\ lastEvent = Event("pointermove", "skipped")
    /\ isDraggingPosition
    /\ selectedPointId \in IdSet(controlPoints)

----------------------------------------------------------------------------
(* Properties of getPose, under PoseSpec.                                  *)

\* The pose of a control point, in the numbers of getPose.
PoseOf(point) ==
    [position |-> NumVec(point.position), quaternion |-> point.quaternion]

\* The call of getPose that lastEvent records, if it is one.
PoseCalled == lastEvent.type = "getPose"
CalledT == lastEvent.outcome.t
CalledResult == lastEvent.outcome.result

Mix(a, b, local) ==
    RAdd(RMul(RSub(Num(1), local), Num(a)), RMul(local, Num(b)))

\* The reference computation of a pose on two or more points.
ReferencePose(points, t) ==
    LET c == IF RLess(t, Num(0)) THEN Num(0)
             ELSE IF RLess(Num(1), t) THEN Num(1) ELSE t
        S == Len(points) - 1
        u == RMul(c, Num(S))
        segment == IF RFloor(u) < S - 1 THEN RFloor(u) ELSE S - 1
        local == RSub(u, Num(segment))
        A == points[segment + 1]
        B == points[segment + 2]
    IN  [position |-> Vec3(Mix(A.position.x, B.position.x, local),
                           Mix(A.position.y, B.position.y, local),
                           Mix(A.position.z, B.position.z, local)),
         quaternion |-> slerpQuaternions(A.quaternion, B.quaternion, local)]

\* The point halfway between two positions.
Midpoint(a, b) ==
    Vec3(Rat(a.x + b.x, 2), Rat(a.y + b.y, 2), Rat(a.z + b.z, 2))

\* C12: on a rail of two or more points getPose(t) is the reference
\* computation (clamp t, S = N - 1, u = c * S, segment = min(floor(u), S - 1),
\* local = u - segment, interpolation between point[segment] and
\* point[segment + 1] at local); every t below 0 gives the pose of t = 0,
\* every t above 1 the pose of t = 1, and on three points getPose(1/4) is
\* the midpoint of the first segment.
C12_PoseIsReference ==
    (PoseCalled /\ Len(controlPoints) >= 2) =>
        /\ CalledResult = Some(ReferencePose(controlPoints, CalledT))
        /\ RLess(CalledT, Num(0)) => CalledResult = getPose(controlPoints, Num(0))
        /\ RLess(Num(1), CalledT) => CalledResult = getPose(controlPoints, Num(1))
        /\ (CalledT = Rat(1, 4) /\ Len(controlPoints) = 3)
              => CalledResult[1].position =
                    Midpoint(controlPoints[1].position, controlPoints[2].position)

C12_Witness ==
    /\ PoseCalled
    /\ CalledT = Rat(1, 4)
    /\ Len(controlPoints) = 3
    /\ controlPoints[1].position = Vec3(0, 0, 0)
    /\ controlPoints[2].position = Vec3(1, 2, 0 - 1)
    /\ controlPoints[3].position = Vec3(2, 4, 0 - 2)
    /\ CalledResult[1].position = Vec3(Rat(1, 2), Num(1), Rat(0 - 1, 2))
    /\ CalledResult[1].quaternion =
          [from |-> IdentityQuat, to |-> Quat(0, 1, 0, 0), at |-> Rat(1, 2)]

C14_EmptyRailNoPose ==
    Len(controlPoints) = 0 =>
        /\ \A t \in Progresses : getPose(controlPoints, t) = None
        /\ PoseCalled => CalledResult = None

C14_Witness ==
    /\ PoseCalled
    /\ CalledT = Rat(3, 2)
    /\ Len(controlPoints) = 0
    /\ CalledResult = None

\* C15: on a rail of exactly one point getPose(t) is that point's position
\* and orientation for every t.
C15_SinglePointVerbatim ==
    Len(controlPoints) = 1 =>
        /\ \A t \in Progresses : getPose(controlPoints, t) = Some(PoseOf(controlPoints[1]))
        /\ PoseCalled => CalledResult = Some(PoseOf(controlPoints[1]))

C15_Witness ==
    /\ PoseCalled
    /\ CalledT = Rat(1, 2)
    /\ Len(controlPoints) = 1
    /\ controlPoints[1].position = Vec3(1, 2, 0 - 1)
    /\ controlPoints[1].quaternion = Quat(0, 1, 0, 0)
    /\ CalledResult = Some(PoseOf(controlPoints[1]))

----------------------------------------------------------------------------
(* Properties of the rail store's calls, under RailSpec.                   *)

\* The points of a sequence other than the one with the id, in order.
Without(points, id) == SelectSeq(points, LAMBDA point : point.id # id)

\* The points of a sequence, as a set.
PointSet(points) == {points[i] : i \in 1..Len(points)}

\* C16: for every rail, rebuilding it from its own serialized form gives
\* the same ids in the same order with equal positions and orientations,
\* and a rail that is so rebuilt is equal to what it was.
C16_SerializationRoundTrips ==
    /\ [](LET rebuilt == fromJSON(toJSON(controlPoints))
          IN  /\ Len(rebuilt) = Len(controlPoints)
              /\ \A i \in 1..Len(controlPoints) :
                    /\ rebuilt[i].id = controlPoints[i].id
                    /\ rebuilt[i].position = controlPoints[i].position
                    /\ rebuilt[i].quaternion = controlPoints[i].quaternion)
    /\ [][lastEvent'.type = "fromJSON" => controlPoints' = controlPoints]_vars

C16_Witness ==
    /\ lastEvent = Event("fromJSON", "roundTrip")
    /\ Len(controlPoints) = 3
    /\ controlPoints[1].id = generatePointId(2)
    /\ controlPoints[1].position # controlPoints[2].position
    /\ controlPoints[1].quaternion = Quat(0, 1, 0, 0)
    /\ controlPoints[2].quaternion = IdentityQuat

\* C17: from any rail, an addPoint directly followed by removePoint of the
\* id it returned leaves the sequence as it was before the two calls: same
\* length, same points, same values, same order.
C17_AddThenRemoveRestores ==
    /\ [](\A position \in PlanePoints, quaternion \in CallQuats :
            removePoint(addPoint(controlPoints, pointCounter, position, quaternion),
                        generatePointId(pointCounter)) = controlPoints)
    /\ [][(/\ lastEvent.type = "addPoint"
           /\ lastEvent' = Event("removePoint", "justAdded"))
            => controlPoints' = lastEvent.before]_vars

C17_Witness ==
    /\ lastEvent = Event("removePoint", "justAdded")
    /\ Len(controlPoints) = 2
    /\ controlPoints[1].position # controlPoints[2].position

\* C18: reorderPoint(id, newIndex) on a present id puts the point at index
\* clamp(newIndex, 0, N - 1) of the N-point sequence (beyond the end: last,
\* negative: first), keeps the length and the set of points, and keeps the
\* other points in their relative order.
C18_ReorderClamps ==
    /\ [](\A id \in IdSet(controlPoints), newIndex \in NewIndexes :
            LET N == Len(controlPoints)
                reordered == reorderPoint(controlPoints, id, newIndex)
                target == IF newIndex < 0 THEN 0
                          ELSE IF newIndex > N - 1 THEN N - 1 ELSE newIndex
            IN  /\ Len(reordered) = N
                /\ reordered[target + 1] = controlPoints[findIndex(controlPoints, id)]
                /\ PointSet(reordered) = PointSet(controlPoints)
                /\ Without(reordered, id) = Without(controlPoints, id))
    /\ [][(lastEvent'.type = "reorderPoint" /\ lastEvent'.outcome # "absent")
            => /\ Len(controlPoints') = Len(controlPoints)
               /\ PointSet(controlPoints') = PointSet(controlPoints)
               /\ \E id \in IdSet(controlPoints) :
                     /\ Without(controlPoints', id) = Without(controlPoints, id)
                     /\ lastEvent'.outcome = "below" => controlPoints'[1].id = id
                     /\ lastEvent'.outcome = "beyond"
                           => controlPoints'[Len(controlPoints)].id = id]_vars

C18_Witness ==
    /\ lastEvent = Event("reorderPoint", "beyond")
    /\ Len(controlPoints) = 3
    /\ controlPoints[1].id = generatePointId(1)
    /\ controlPoints[2].id = generatePointId(2)
    /\ controlPoints[3].id = generatePointId(0)

\* C19: removePoint, updatePoint and reorderPoint with an id that is not in
\* the rail leave the rail as it is (same points, values, order), and
\* getPoint with such an id finds nothing.
C19_AbsentIdNoOp ==
    /\ [](\A id \in CallIds \ IdSet(controlPoints) :
            /\ removePoint(controlPoints, id) = controlPoints
            /\ \A position \in Intersections, quaternion \in CallQuats :
                  updatePoint(controlPoints, id, position, quaternion) = controlPoints
            /\ \A newIndex \in NewIndexes :
                  reorderPoint(controlPoints, id, newIndex) = controlPoints
            /\ getPoint(controlPoints, id) = None)
    /\ [][(/\ lastEvent'.type \in {"removePoint", "updatePoint", "reorderPoint"}
           /\ lastEvent'.outcome = "absent")
            => controlPoints' = controlPoints]_vars

C19_Witness ==
    /\ lastEvent = Event("removePoint", "absent")
    /\ Len(controlPoints) = 2
    /\ pointCounter = 3

\* C20: addPoint(position, orientation?) makes the sequence one longer,
\* keeps every existing point at its index with its values, and puts the
\* new point last, with the given position and with the given orientation,
\* or the identity when none is given.
C20_AddPointAppends ==
    /\ [](\A position \in PlanePoints, quaternion \in CallQuats :
            LET N == Len(controlPoints)
                added == addPoint(controlPoints, pointCounter, position, quaternion)
            IN  /\ Len(added) = N + 1
                /\ \A i \in 1..N : added[i] = controlPoints[i]
                /\ added[N + 1].position = position
                /\ added[N + 1].quaternion =
                      IF quaternion = None THEN IdentityQuat ELSE quaternion[1])
    /\ [][lastEvent'.type = "addPoint"
            => /\ Len(controlPoints') = Len(controlPoints) + 1
               /\ SubSeq(controlPoints', 1, Len(controlPoints)) = controlPoints
               /\ controlPoints'[Len(controlPoints')].position \in PlanePoints
               /\ controlPoints'[Len(controlPoints')].quaternion =
                     IF lastEvent'.outcome = "default" THEN IdentityQuat
                     ELSE Quat(0, 1, 0, 0)]_vars

C20_Witness ==
    /\ lastEvent.type = "addPoint"
    /\ lastEvent.outcome = "default"
    /\ Len(controlPoints) = 3
    /\ lastEvent.before = SubSeq(controlPoints, 1, 2)
    /\ controlPoints[3].position = Vec3(1, 0, 0)
    /\ controlPoints[3].quaternion = IdentityQuat
    /\ controlPoints[2].quaternion = Quat(0, 1, 0, 0)

----------------------------------------------------------------------------
(* Properties of identity and of the store's other calls, under RailSpec.  *)

\* C21: every id addPoint generates differs from every id generated earlier
\* in the session, whether that id is still in the rail, was removed, was
\* disposed of with the rail, or was generated for another rail.
C21_GeneratedIdsFresh ==
    [][lastEvent'.type \in {"addPoint", "otherRail"} =>
          /\ generatePointId(pointCounter) \notin generatedIds
          /\ generatedIds' = generatedIds \cup {generatePointId(pointCounter)}
          /\ lastEvent'.type = "addPoint" =>
                /\ controlPoints'[Len(controlPoints')].id \notin generatedIds
                /\ controlPoints'[Len(controlPoints')].id \in generatedIds']_vars

\* An id was added to the rail while two ids generated earlier, no longer
\* in this rail or never in it, are on record.
C21_Witness ==
    /\ lastEvent.type = "addPoint"
    /\ Len(controlPoints) = 1
    /\ Cardinality(generatedIds) = 3

\* C26: dispose empties the rail from any state: no point is left, getPose
\* returns the empty marker for every t and getPoint finds none of the ids
\* that were present.
C26_DisposeEmpties ==
    [][lastEvent'.type = "dispose" =>
          /\ Len(controlPoints') = 0
          /\ \A t \in Progresses : getPose(controlPoints', t) = None
          /\ \A id \in IdSet(controlPoints) :
                getPoint(controlPoints', id) = None]_vars

\* A rail of several points was disposed of.
C26_Witness ==
    /\ lastEvent = Event("dispose", "nonEmpty")
    /\ pointCounter >= 2
    /\ Len(controlPoints) = 0

\* C23: updatePoint on a present id changes only the supplied fields of
\* that one point: an omitted field keeps its value, the point keeps its id
\* and its index, every other point and the length are unchanged.
C23_UpdateChangesOnlySupplied ==
    /\ [](\A id \in IdSet(controlPoints), position \in Intersections,
             quaternion \in CallQuats :
            LET after == updatePoint(controlPoints, id, position, quaternion)
                index == findIndex(controlPoints, id)
            IN  /\ Len(after) = Len(controlPoints)
                /\ \A j \in 1..Len(controlPoints) :
                      j # index => after[j] = controlPoints[j]
                /\ after[index].id = id
                /\ after[index].position =
                      IF position # None THEN position[1]
                      ELSE controlPoints[index].position
                /\ after[index].quaternion =
                      IF quaternion # None THEN quaternion[1]
                      ELSE controlPoints[index].quaternion)
    /\ [][(lastEvent'.type = "updatePoint" /\ lastEvent'.outcome = "present") =>
            /\ Len(controlPoints') = Len(controlPoints)
            /\ \A j \in 1..Len(controlPoints) :
                  controlPoints'[j].id = controlPoints[j].id
            /\ Cardinality({j \in 1..Len(controlPoints) :
                              controlPoints'[j] # controlPoints[j]}) <= 1]_vars

\* updatePoint was called with a present id on a rail of several points, one
\* of them with an orientation that an omitted quaternion had to keep.
C23_Witness ==
    /\ lastEvent = Event("updatePoint", "present")
    /\ Len(controlPoints) >= 2
    /\ \E j \in 1..Len(controlPoints) : controlPoints[j].quaternion # IdentityQuat

----------------------------------------------------------------------------
(* How a drag begins, under Spec.                                          *)

\* C30: only a primary-button pointer-down in select mode that hits a point
\* visual takes the machine from Idle into a drag: no pointer-down in create
\* mode, no pointer-move, no release, no mode change, no selection change and
\* no delete does.
C30_DragOnlyFromSelectHit ==
    [][(Idle /\ ~Idle') =>
          /\ mode = "select"
          /\ lastEvent'.type = "pointerdown"
          /\ lastEvent'.outcome \in {"cone", "body"}
          /\ dragStart' # None
          /\ selectedPointId' = dragStart'[1].pointId]_vars

\* A pointer-down on a cone took the idle machine into a rotation drag.
C30_Witness ==
    /\ lastEvent = Event("pointerdown", "cone")
    /\ isDraggingRotation
    /\ ~isDraggingPosition

----------------------------------------------------------------------------
(* Properties of the player viewport, under PlayerSpec.                    *)

\* C28: on an empty rail the player holds the pose it has: creating the
\* viewport leaves the camera as constructed and setProgress(t), for any t,
\* leaves the camera's position and orientation unchanged; neither fails.
C28_EmptyRailHoldsPose ==
    /\ []((Len(controlPoints) = 0 /\ player # None) =>
            \A t \in Progresses :
                setProgress(player[1], controlPoints, t).camera
                    = player[1].camera)
    /\ [][(Len(controlPoints) = 0 /\ lastEvent'.type = "setProgress") =>
            player'[1].camera = player[1].camera]_vars
    /\ [][(Len(controlPoints) = 0 /\ lastEvent'.type = "createPlayerViewport") =>
            player'[1].camera = NewCamera]_vars

\* setProgress ran on a rail emptied after the camera had taken a pose from
\* it: the camera is still away from where it was constructed.
C28_Witness ==
    /\ lastEvent = Event("setProgress", "empty")
    /\ Len(controlPoints) = 0
    /\ player # None
    /\ player[1].camera # NewCamera

----------------------------------------------------------------------------
(* Properties of the store seen as references, under StoreSpec.            *)

\* What the caller holds, "none" when nothing.
HeldKind == IF held = None THEN "none" ELSE held[1].kind

\* No object reachable from what the caller holds is reachable from the rail.
HeldApartFromRail ==
    Reach(heap, {held[1].ref}) \cap Reach(heap, {RailArray}) = {}

\* C22: whatever calls of addPoint, removePoint, updatePoint, reorderPoint,
\* fromJSON and dispose were made, no two control points of the rail have
\* the same id.
C22_NoDuplicateIds ==
    Cardinality(IdSet(controlPoints)) = Len(controlPoints)

\* C24: toJSON returns a snapshot of plain values in rail order that shares
\* no object with the rail: a later addPoint, removePoint, updatePoint,
\* reorderPoint or dispose leaves the snapshot as it is, and writing to the
\* snapshot leaves the rail as it is.
C24_SnapshotSharesNothing ==
    /\ [](HeldKind = "snapshot" => HeldApartFromRail)
    /\ [][lastEvent'.type = "toJSON" =>
            /\ ArrayView(heap', held'[1].ref) = toJSON(controlPoints)
            /\ RailView(heap') = RailView(heap)]_vars
    /\ [][(lastEvent'.type \in RailCalls /\ HeldKind = "snapshot") =>
            ArrayView(heap', held'[1].ref) = ArrayView(heap, held[1].ref)]_vars
    /\ [][(lastEvent'.type = "callerMutates" /\ HeldKind = "snapshot") =>
            /\ RailView(heap') = RailView(heap)
            /\ RailView(heap') = controlPoints']_vars

\* A snapshot of two points is held and the rail was updated since: the two
\* differ.
C24_Witness ==
    /\ HeldKind = "snapshot"
    /\ lastEvent.type = "updatePoint"
    /\ Len(controlPoints) = 2
    /\ Len(heap[held[1].ref].items) = 2
    /\ ArrayView(heap, held[1].ref) # toJSON(controlPoints)

\* C25: fromJSON(data) replaces the whole sequence: afterwards the rail holds
\* exactly the points of data, same ids, same order, and none of the earlier
\* points; each is a new instance, so that later calls on the rail leave data
\* as it is and later writes to data leave the rail as it is.
C25_FromJSONReplaces ==
    /\ [](HeldKind = "loaded" => HeldApartFromRail)
    /\ [][lastEvent'.type = "fromJSON" =>
            /\ RailView(heap') = fromJSON(ArrayView(heap, held[1].ref))
            /\ controlPoints' = RailView(heap')
            /\ Len(controlPoints') = Len(heap[held[1].ref].items)
            /\ \A i \in 1..Len(controlPoints') :
                  controlPoints'[i].id = heap[heap[held[1].ref].items[i]].id
            /\ Cardinality(Reach(heap', {RailArray}))
                  = 1 + 3 * Len(controlPoints')
            /\ ArrayView(heap', held'[1].ref) = ArrayView(heap, held[1].ref)]_vars
    /\ [][(lastEvent'.type \in RailCalls /\ HeldKind = "loaded") =>
            ArrayView(heap', held'[1].ref) = ArrayView(heap, held[1].ref)]_vars
    /\ [][(lastEvent'.type = "callerMutates" /\ HeldKind = "loaded") =>
            /\ RailView(heap') = RailView(heap)
            /\ RailView(heap') = controlPoints']_vars

\* A rail that had a point of its own was replaced by the caller's list, and
\* the caller has written to the list since: list and rail differ.
C25_Witness ==
    /\ HeldKind = "loaded"
    /\ lastEvent = Event("callerMutates", "loaded")
    /\ pointCounter >= 1
    /\ Len(controlPoints) >= 1
    /\ IdSet(controlPoints) \cap generatedIds = {}
    /\ ArrayView(heap, held[1].ref) # toJSON(controlPoints)

\* C27: getPose is a query whose result is never part of the rail: the call
\* leaves the rail as it is, and writing to the returned pose, in the
\* single-point case too, changes no control point and no later result of
\* getPose.
C27_PoseSharesNothing ==
    /\ [](HeldKind = "pose" => HeldApartFromRail)
    /\ [][lastEvent'.type = "getPose" =>
            /\ RailView(heap') = RailView(heap)
            /\ controlPoints' = controlPoints
            /\ lastEvent'.outcome = "pose" =>
                  Some(PoseView(heap', held'[1].ref))
                      = getPose(controlPoints, lastEvent'.t)]_vars
    /\ [][(lastEvent'.type = "callerMutates" /\ HeldKind = "pose") =>
            /\ RailView(heap') = RailView(heap)
            /\ \A t \in Progresses :
                  getPose(RailView(heap'), t) = getPose(RailView(heap), t)]_vars

\* The pose of a single-point rail was written to.
C27_Witness ==
    /\ lastEvent = Event("callerMutates", "pose")
    /\ Len(controlPoints) = 1
    /\ Some(PoseView(heap, held[1].ref)) # getPose(controlPoints, Num(0))

----------------------------------------------------------------------------
(* LoopSpec: start(), stop(), dispose() on either viewport and the         *)
(* browser's frames, in any order.                                         *)

\* What a render-loop step did, for lastEvent.
LoopEvent(type, outcome, viewport) ==
    [type |-> type, outcome |-> outcome, viewport |-> viewport]

\* viewport.start()
Start ==
    \E v \in Viewports :
        /\ loop.animationId[v] = Null => loop.nextId <= MaxRequests
        /\ loop' = start(loop, v)
        /\ lastEvent' = LoopEvent("start",
             IF loop.animationId[v] = Null THEN "scheduled" ELSE "running", v)
        /\ UNCHANGED <<controlPoints, pointCounter, generatedIds, editorVars,
                       storeVars, player>>

\* viewport.stop()
Stop ==
    \E v \in Viewports :
        /\ loop' = stop(loop, v)
        /\ lastEvent' = LoopEvent("stop",
             IF loop.animationId[v] = Null THEN "idle" ELSE "cancelled", v)
        /\ UNCHANGED <<controlPoints, pointCounter, generatedIds, editorVars,
                       storeVars, player>>

\* viewport.dispose(): this.stop(), then the renderer and listener go.
DisposeViewport ==
    \E v \in Viewports :
        /\ loop' = stop(loop, v)
        /\ lastEvent' = LoopEvent("disposeViewport",
             IF loop.animationId[v] = Null THEN "idle" ELSE "cancelled", v)
        /\ UNCHANGED <<controlPoints, pointCounter, generatedIds, editorVars,
                       storeVars, player>>

\* The browser runs the callback of a pending request: a frame is rendered.
Frame ==
    \E r \in loop.pending :
        /\ loop.nextId <= MaxRequests
        /\ loop' = animate(loop, r)
        /\ lastEvent' = LoopEvent("frame", "rendered", r.viewport)
        /\ UNCHANGED <<controlPoints, pointCounter, generatedIds, editorVars,
                       storeVars, player>>

LoopNext ==
    \/ Start
    \/ Stop
    \/ DisposeViewport
    \/ Frame

LoopSpec == Init /\ [][LoopNext]_vars

----------------------------------------------------------------------------
(* Further properties of the pointer interaction machine, under Spec.      *)

\* C31: a pointer-down with a button other than the primary one is ignored
\* in every mode and state: the rail, the selection, the mode, the drag
\* state and the orbit controls' enabled flag stay as they are.
C31_NonPrimaryIgnored ==
    [][(lastEvent'.type = "pointerdown" /\ lastEvent'.outcome = "ignored") =>
          UNCHANGED <<controlPoints, pointCounter, selectedPointId, mode,
                      isDraggingPosition, isDraggingRotation, controlsEnabled,
                      lastMouse, pointMeshes, railLine, uiPoints>>]_vars

\* A secondary-button pointer-down was delivered during a rotation drag in
\* create mode.
C31_Witness ==
    /\ lastEvent = Event("pointerdown", "ignored")
    /\ isDraggingRotation
    /\ mode = "create"

\* C32: pointer-up and pointer-leave leave every control point, the
\* selection and the mode unchanged, so after a drag the dragged point keeps
\* the value the last applied pointer-move wrote.
C32_ReleaseKeepsRail ==
    [][lastEvent'.type \in {"pointerup", "pointerleave"} =>
          UNCHANGED <<controlPoints, selectedPointId, mode>>]_vars

\* A drag that rotated the selected point away from the orientation it was
\* created with has just been released.
C32_Witness ==
    /\ lastEvent.type \in {"pointerup", "pointerleave"}
    /\ lastEvent.outcome = "released"
    /\ \E i \in 1..Len(controlPoints) :
          /\ controlPoints[i].id = selectedPointId
          /\ controlPoints[i].quaternion \notin CameraQuats

\* C35: after every handler the selection is null or the id of a point of
\* the rail; deleting the selected point clears the selection, deleting
\* another point leaves it, and creating a point leaves it.
C35_SelectionInRail ==
    /\ [](selectedPointId = Null \/ selectedPointId \in IdSet(controlPoints))
    /\ [][(lastEvent'.type = "delete" /\ lastEvent'.outcome = "selected") =>
            selectedPointId' = Null]_vars
    /\ [][(lastEvent'.type = "delete" /\ lastEvent'.outcome = "other") =>
            UNCHANGED selectedPointId]_vars
    /\ [][(lastEvent'.type = "pointerdown" /\ lastEvent'.outcome = "created") =>
            UNCHANGED selectedPointId]_vars

\* The selected point has just been deleted while another point remains.
C35_Witness ==
    /\ lastEvent = Event("delete", "selected")
    /\ selectedPointId = Null
    /\ Len(controlPoints) >= 1

\* C33: whenever the orbit controls are enabled the machine handles no
\* pointer input: a pointer event delivered then changes neither the rail,
\* the selection, the mode nor the drag state.
C33_EnabledControlsNoInput ==
    [][(controlsEnabled /\
        lastEvent'.type \in {"pointerdown", "pointermove", "pointerup",
                             "pointerleave"}) =>
          UNCHANGED <<controlPoints, selectedPointId, mode,
                      isDraggingPosition, isDraggingRotation>>]_vars

\* C34: during a rotation drag the delta a pointer-move applies is measured
\* from the immediately preceding pointer sample of the drag (lastSample:
\* the pointer-down that started it, then each pointer-move received), and
\* every pointer-move received during the drag becomes the last sample.
\* Stated for a drag in which only the rotation flag is set.
C34_DeltaFromPrecedingSample ==
    /\ [][(lastEvent'.type = "pointermove" /\ lastEvent'.outcome = "rotated") =>
            lastMouse = lastSample]_vars
    /\ [][(isDraggingRotation /\ ~isDraggingPosition /\
            lastEvent'.type = "pointermove") =>
            lastMouse' = lastSample']_vars

----------------------------------------------------------------------------
(* Further properties of the player viewport, under PlayerSpec.            *)

\* clamp(t, 0, 1)
Clamp01(t) ==
    IF RLess(t, Num(0)) THEN Num(0) ELSE IF RLess(Num(1), t) THEN Num(1) ELSE t

\* C36: getProgress() is 0 on a new player and after setProgress(t) it is
\* clamp(t, 0, 1), kept until the next setProgress, so it is always within
\* [0, 1]; on a nonempty rail the camera pose right after setProgress(t) is
\* rail.getPose(clamp(t, 0, 1)).
C36_ProgressIsClamped ==
    /\ [](player # None =>
            /\ ~RLess(getProgress(player[1]), Num(0))
            /\ ~RLess(Num(1), getProgress(player[1])))
    /\ [](player # None =>
            \A t \in PlayerProgresses :
                LET after == setProgress(player[1], controlPoints, t)
                    pose == getPose(controlPoints, Clamp01(t))
                IN  /\ getProgress(after) = Clamp01(t)
                    /\ Len(controlPoints) > 0 =>
                          /\ pose # None
                          /\ after.camera.position = pose[1].position
                          /\ after.camera.quaternion = pose[1].quaternion)
    /\ [][lastEvent'.type = "createPlayerViewport" =>
            getProgress(player'[1]) = Num(0)]_vars
    /\ [][lastEvent'.type = "setProgress" =>
            \E t \in PlayerProgresses :
                player' = Some(setProgress(player[1], controlPoints, t))]_vars
    /\ [][(player # None /\
            lastEvent'.type \notin {"createPlayerViewport", "setProgress"}) =>
            getProgress(player'[1]) = getProgress(player[1])]_vars

\* setProgress was called with a t above 1 on a rail of two points: the
\* progress is 1 and the camera is at the last point.
C36_Witness ==
    /\ lastEvent = Event("setProgress", "posed")
    /\ Len(controlPoints) = 2
    /\ player # None
    /\ getProgress(player[1]) = Num(1)
    /\ player[1].camera.position = NumVec(controlPoints[2].position)
    /\ player[1].camera.position # NumVec(controlPoints[1].position)

----------------------------------------------------------------------------
(* Properties of the render loop, under LoopSpec.                          *)

\* C37: a viewport has at most one animation-frame request pending, the one
\* animationId names; start() while the loop runs schedules nothing; stop()
\* cancels the pending request, so no frame of the viewport is rendered
\* after stop() until the next start(); stop() while not running changes
\* nothing.
C37_OneRequestPending ==
    /\ [](\A v \in Viewports :
            /\ Cardinality(PendingOf(loop, v)) <= 1
            /\ PendingOf(loop, v) =
                  IF loop.animationId[v] = Null THEN {}
                  ELSE {[id |-> loop.animationId[v], viewport |-> v]})
    /\ [][(lastEvent'.type = "start" /\ lastEvent'.outcome = "running") =>
            /\ loop'.pending = loop.pending
            /\ loop'.animationId = loop.animationId]_vars
    /\ [][lastEvent'.type = "stop" =>
            PendingOf(loop', lastEvent'.viewport) = {}]_vars
    /\ [][lastEvent'.type = "frame" => loop.started[lastEvent'.viewport]]_vars
    /\ [][(lastEvent'.type = "stop" /\ lastEvent'.outcome = "idle") =>
            loop' = loop]_vars

\* The editor's loop was stopped with its request pending after frames had
\* been rendered, while the player's loop keeps its one request.
C37_Witness ==
    /\ lastEvent = LoopEvent("stop", "cancelled", "editor")
    /\ loop.animationId["editor"] = Null
    /\ PendingOf(loop, "editor") = {}
    /\ Cardinality(PendingOf(loop, "player")) = 1
    /\ loop.nextId > 3

====
